---- MODULE Spec2Model ----
(***************************************************************************)
(* Slot supervisor of the RFC2217 portal (src/pi/portal.py): one slot, its *)
(* proxy child processes, the hotplug ingest handler, the background       *)
(* start/stop tasks, the control-surface handlers and the flap recovery    *)
(* threads.  The HTTP server is a ThreadingHTTPServer, so every handler    *)
(* runs on its own thread.  A step of the model is a block of statements   *)
(* of one thread: threads are cut at lock acquisitions, at the sleeps and   *)
(* the blocking I/O between two writes of the slot, and at the tests whose *)
(* outcome an unlocked writer acts on later (_recovering, the health       *)
(* probe).  A                                                              *)
(* `with slot["_lock"]` block is one step, except that start_proxy is cut   *)
(* at the child spawn.  Two unlocked read-modify-write sequences are cut   *)
(* statement by statement, because the fields they write are otherwise     *)
(* written only under the lock or by one statement: `seq_counter += 1`     *)
(* (load, then store) and the assignments of _refresh_slot_health.         *)
(***************************************************************************)
EXTENDS Integers, Sequences, FiniteSets, TLC

\* ---- program constants (src/pi/portal.py) ----
FLAP_WINDOW_S == 30
FLAP_THRESHOLD == 6
FLAP_COOLDOWN_S == 10
FLAP_MAX_RETRIES == 2

STATE_ABSENT == "absent"
STATE_IDLE == "idle"
STATE_RESETTING == "resetting"
STATE_MONITORING == "monitoring"
STATE_FLAPPING == "flapping"
STATE_RECOVERING == "recovering"
STATE_DOWNLOAD_MODE == "download_mode"

\* Python None; a value x of an optional field is Some(x)
None == <<>>
Some(x) == <<x>>
Val(o) == o[1]

\* ---- bounds of the model ----
\* the clock is read in multiples of TickS seconds, MaxTicks of them in a run
TickS == 10
MaxTicks == 3
\* hotplug requests that may be in progress at once
NumHandlers == 2
\* background start tasks / stop tasks that may be pending at once
MaxBg == 1
\* recovery threads that may exist at once
MaxRec == 2
\* proxy children ever spawned
MaxPid == 3
\* hotplug events of a run: enough to cross the flap threshold, and few for
\* the runs that follow concurrent requests
MaxEvents == 7
FewEvents == 2
\* control-surface calls and proxy deaths of a run
MaxCalls == 2
MaxDeaths == 1
\* after the retry cap: further hotplug events, clock steps, manual recover calls
LateEvents == 1
LateTicks == 1
ManualCalls == 1
\* threads that post human-interaction requests, requests they may post in
\* all, and clicks of the Done and Cancel buttons
MaxRequesters == 2
\* the WiFi controller: threads calling it, calls in all, and lease events
MaxClients == 2
MaxRadioOps == 4
MaxLeases == 2
\* the activity log: clock steps of half a second, writes and reads in all,
\* and the capacity of the ring (200 in the code)
MaxLogTime == 3
MaxWrites == 3
MaxReads == 2
LogCap == 2
\* control-surface calls when /api/serial/release is exercised
ReleaseCalls == 3
MaxPosts == 3
MaxClicks == 2
\* threads that take locks, and the operations they may begin in all
MaxLockThreads == 3
MaxLockCalls == 4

Handlers == 1..NumHandlers
RecIds == 1..MaxRec

\* The devnode every event and /api/start names, and the two pins of the
\* slot configuration of the end-to-end scenario (both in GPIO_ALLOWED).
DEVNODE == "/dev/ttyACM0"
PIN_BOOT == 5
PIN_EN == 6
TCP_PORT == 4001

VARIABLES
    cfg,          \* static slot configuration: tcp_port, gpio_boot, gpio_en, key_ok
    slot,         \* the slot dict (mutable fields)
    seq_counter,  \* module-level seq_counter
    lock,         \* holder of slot["_lock"]: "free", "ctl" or "bg"
    procs,        \* pids of proxy children that are alive
    next_pid,     \* next pid the OS hands out
    gpio,         \* pin -> "unset" | "low" (0) | "high" (1) | "z"
    usb,          \* USB device of the slot: bound, and the unbind/bind writes issued
    now,          \* time.time(), as last read
    serving,      \* FALSE until main() has run the boot scan
    hp,           \* hotplug handler threads
    bg,           \* background tasks spawned by hotplug handlers
    ctl,          \* the control-surface client's request in progress
    rec,          \* recovery threads: position, the retry counter as read, and
                  \* the caller of _start_flap_recovery that started the thread
    budget,       \* environment inputs still to come
    human,        \* the human-interaction rendezvous: _human_event,
                  \* _human_confirmed, _human_message and the requests
    activity_log, \* the activity log and its readers
    radio,        \* the WiFi controller's radio
    lk,           \* the four kinds of lock: who holds each, and what each
                  \* thread still has to do to them in its operation
    hist          \* observations: seqs assigned, seqs reported, whether the
                  \* last event handled came exactly one cooldown after the
                  \* previous one on a slot that was flapping and not
                  \* recovering, the number of flap-threshold crossings, and
                  \* whether a background start task has had start_proxy fail
                  \* since the last hotplug event of the run arrived

\* the slot supervisor's variables
slotvars == <<cfg, slot, seq_counter, lock, procs, next_pid, gpio, usb, now,
              serving, hp, bg, ctl, rec, budget, hist>>

\* the variables of the parts of the portal that share nothing with the slots
elsewhere == <<human, activity_log, radio, lk>>

vars == <<cfg, slot, seq_counter, lock, procs, next_pid, gpio, usb, now,
          serving, hp, bg, ctl, rec, budget, hist, human, activity_log, radio,
          lk>>

\* ---------------------------------------------------------------------------
\* Slot records
\* ---------------------------------------------------------------------------

\* rfc2217://<host_ip>:<tcp_port>
Url(tcp_port) == <<"rfc2217", tcp_port>>

\* load_config: a configured slot as main() leaves it before the boot scan
\* (main pre-computes url for the slots that have a tcp_port).
load_config(c) ==
    [ present |-> FALSE, running |-> FALSE, pid |-> None, devnode |-> None,
      seq |-> 0, last_action |-> None,
      url |-> IF c.tcp_port # None THEN Url(Val(c.tcp_port)) ELSE None,
      last_error |-> None, flapping |-> FALSE, state |-> STATE_ABSENT,
      _event_times |-> <<>>, _recovering |-> FALSE, _recover_retries |-> 0 ]

\* The slot configurations modelled: with both recovery pins, and without.
ConfigGpio ==
    [ tcp_port |-> Some(TCP_PORT), gpio_boot |-> Some(PIN_BOOT),
      gpio_en |-> Some(PIN_EN), key_ok |-> TRUE ]
ConfigNoGpio ==
    [ tcp_port |-> Some(TCP_PORT), gpio_boot |-> None, gpio_en |-> None,
      key_ok |-> TRUE ]
Configs == {ConfigGpio, ConfigNoGpio}
\* a configured slot whose slot_key names no USB device
\* (_slot_key_to_usb_device returns None)
ConfigBadKey ==
    [ tcp_port |-> Some(TCP_PORT), gpio_boot |-> None, gpio_en |-> None,
      key_ok |-> FALSE ]

\* _make_dynamic_slot: the slot created for an unknown slot_key (no tcp_port,
\* no label, no pins)
ConfigDynamic ==
    [ tcp_port |-> None, gpio_boot |-> None, gpio_en |-> None, key_ok |-> TRUE ]

Pins == {PIN_BOOT, PIN_EN}

\* _is_process_alive
_is_process_alive(pid) == pid \in procs

\* _stop_pid: SIGTERM, wait, SIGKILL: the process is gone afterwards
_stop_pid(ps, pid) == ps \ {pid}

\* a stop_proxy that forgets to clear the url
stop_proxy_KeepUrl(s) ==
    [s EXCEPT !.running = FALSE, !.pid = None, !.last_error = None]

\* stop_proxy: the slot afterwards
stop_proxy(s) ==
    [s EXCEPT !.running = FALSE, !.pid = None, !.url = None, !.last_error = None]

\* stop_proxy: the processes afterwards (pid and _is_process_alive(pid))
stop_proxy_procs(s, ps) ==
    IF s.pid # None /\ Val(s.pid) \in ps THEN _stop_pid(ps, Val(s.pid)) ELSE ps

\* `if slot["running"] and slot["pid"]: stop_proxy(slot)`: slot and processes
StopIfRunning(s) == IF s.running /\ s.pid # None THEN stop_proxy(s) ELSE s
\* mutant: the slot's fields are cleared but the old child is not signalled
StopIfRunningProcs_NoKill(s, ps) == ps

StopIfRunningProcs(s, ps) ==
    IF s.running /\ s.pid # None THEN stop_proxy_procs(s, ps) ELSE ps

\* start_proxy, the failures before a child exists (executable missing, device
\* node not ready, Popen raising): they differ only in the text of last_error
start_proxy_early_fail(s) ==
    [s EXCEPT !.last_error = Some("Device not ready after settle timeout")]

\* start_proxy, the child exited within the first 500 ms
start_proxy_exited(s) ==
    [s EXCEPT !.last_error = Some("Proxy exited immediately")]

\* start_proxy, the port never came up (the child is killed)
start_proxy_no_port(s) ==
    [s EXCEPT !.last_error = Some("Proxy started but port not listening")]

\* str(tcp_port) in the url and on the command line; 0 stands for the text
\* "None" of a slot without a port
PortText(port) == IF port = None THEN 0 ELSE Val(port)

start_proxy_ok_NotRunning(s, pid) ==
    [s EXCEPT !.pid = Some(pid), !.last_error = None,
              !.url = Url(PortText(cfg.tcp_port)), !.state = STATE_IDLE]

\* start_proxy, success branch
start_proxy_ok(s, pid) ==
    [s EXCEPT !.running = TRUE, !.pid = Some(pid), !.last_error = None,
              !.url = Url(PortText(cfg.tcp_port)), !.state = STATE_IDLE]

\* is_port_listening: accepting is whether something accepts on the port;
\* connect_ex on a null port raises, and the function returns False for any
\* exception
is_port_listening(port, accepting) == port # None /\ accepting

\* STATE_IDLE if slot["present"] else STATE_ABSENT
IdleOrAbsent(s) == IF s.present THEN STATE_IDLE ELSE STATE_ABSENT

\* [t for t in times if now - t < FLAP_WINDOW_S]
Prune(times, t0) == SelectSeq(times, LAMBDA t : t0 - t < FLAP_WINDOW_S)

\* the flapping-cleared assignments shared by the hotplug path and _slot_info
FlapCleared(s) ==
    [s EXCEPT !.flapping = FALSE, !.last_error = None, !.state = IdleOrAbsent(s)]

\* mutant: a gap of exactly the cooldown does not count as quiet
QuietCheck_StrictGap(s) ==
    LET n == Len(s._event_times) IN
    IF s.flapping /\ ~s._recovering
    THEN IF n < 2 THEN FlapCleared(s)
         ELSE IF s._event_times[n] - s._event_times[n - 1] > FLAP_COOLDOWN_S
              THEN FlapCleared(s) ELSE s
    ELSE s

\* _handle_hotplug, the quiet-period check of a slot that is flapping and not
\* recovering
QuietCheck(s) ==
    LET n == Len(s._event_times) IN
    IF s.flapping /\ ~s._recovering
    THEN IF n < 2 THEN FlapCleared(s)
         ELSE IF s._event_times[n] - s._event_times[n - 1] >= FLAP_COOLDOWN_S
              THEN FlapCleared(s) ELSE s
    ELSE s

\* mutant: the threshold test is strict
FlapDetected_Strict(s) == ~s.flapping /\ Len(s._event_times) > FLAP_THRESHOLD

\* _handle_hotplug, "detect new flapping"
FlapDetected(s) == ~s.flapping /\ Len(s._event_times) >= FLAP_THRESHOLD

\* _handle_hotplug, the assignments of a detected flap
FlapStart(s) ==
    [s EXCEPT !.flapping = TRUE, !.state = STATE_FLAPPING,
              !.last_error = Some("USB flapping detected - starting recovery")]

\* an event handled at instant t on a slot that is flapping and not
\* recovering, exactly FLAP_COOLDOWN_S after the newest event recorded
QuietGap(s, t) ==
    /\ s.flapping /\ ~s._recovering
    /\ Len(s._event_times) >= 1
    /\ t - s._event_times[Len(s._event_times)] = FLAP_COOLDOWN_S

\* time.time(): the instants a read of the clock can return, and the read
ClockReads == {now + k * TickS : k \in 0..budget.ticks}
ClockRead(t) ==
    /\ now' = t
    /\ budget' = [budget EXCEPT !.ticks = @ - (t - now) \div TickS]

\* ---------------------------------------------------------------------------
\* Threads
\* ---------------------------------------------------------------------------

IdleHandler == [pc |-> "idle", action |-> "-", tmp |-> 0]
IdleCtl == [pc |-> "idle", proc |-> 0]
IdleBg == [start_wait |-> 0, stop_wait |-> 0, pc |-> "none", proc |-> 0]
NoRec == [pc |-> "none", retry |-> 0, by |-> 0]

\* the callers of _start_flap_recovery: a hotplug handler, or (0) the
\* /api/serial/recover handler
Callers == Handlers \cup {0}
PcOf(c) == IF c \in Handlers THEN hp[c].pc ELSE ctl.pc
Goto(c, p) ==
    IF c \in Handlers
    THEN hp' = [hp EXCEPT ![c].pc = p] /\ UNCHANGED ctl
    ELSE ctl' = [ctl EXCEPT !.pc = p] /\ UNCHANGED hp
\* where _start_flap_recovery returns to
Return(c) == IF c \in Handlers THEN Goto(c, "dispatch") ELSE Goto(c, "idle")

FreeRec == {i \in RecIds : rec[i].pc = "none"}

\* no handler, background task or recovery thread in progress
Quiescent ==
    /\ serving
    /\ \A h \in Handlers : hp[h].pc = "idle"
    /\ ctl.pc = "idle"
    /\ bg = IdleBg
    /\ \A i \in RecIds : rec[i].pc = "none"
    /\ lock = "free"

\* ---------------------------------------------------------------------------
\* Start-up
\* ---------------------------------------------------------------------------

\* The state main() builds before the boot scan, for configuration c and the
\* environment inputs b that are still to come.
\* ---------------------------------------------------------------------------
\* Human interaction (module state _human_event, _human_confirmed,
\* _human_message; every block under _human_lock is one step)
\* ---------------------------------------------------------------------------

Requesters == 1..MaxRequesters

\* request bodies: "" is a body without a message
Bodies == {"", "press BOOT", "check LED"}

\* a request thread's locals: where it is, the message it posted, what
\* _human_event.wait returned, and the last response it sent
IdleRequest == [pc |-> "idle", msg |-> "", responded |-> FALSE, out |-> "none"]

\* event is _human_event: "none" (None), "clear" or "set" (an Event and its
\* flag).  click and late observe the click that was accepted for the request
\* being served and whether it was accepted after the wait had returned; ui is
\* the answer to the last click.
HumanInit ==
    [event |-> "none", confirmed |-> FALSE, message |-> None,
     click |-> "none", late |-> FALSE, ui |-> "none",
     posts |-> MaxPosts, clicks |-> MaxClicks,
     req |-> [r \in Requesters |-> IdleRequest]]

\* a portal whose POST never finds a request registered
human_pending_Never(h) == FALSE

\* `_human_event is not None`
human_pending(h) == h.event # "none"

\* `_human_event is None or _human_event.is_set()`
human_no_pending(h) == h.event = "none" \/ h.event = "set"

\* a handler that answers from _human_confirmed alone
human_outcome_IgnoreWait(responded, confirmed) ==
    IF confirmed THEN "confirmed" ELSE "cancelled"

\* the response of the blocked request, from what wait returned and the
\* value of _human_confirmed read under the lock
human_outcome(responded, confirmed) ==
    IF responded THEN (IF confirmed THEN "confirmed" ELSE "cancelled")
    ELSE "timeout"

\* ---------------------------------------------------------------------------
\* Activity log (deque activity_log, log_activity, GET /api/log)
\* ---------------------------------------------------------------------------

\* the instants of the log's clock: instant k is second 9 + k/2 of some
\* minute, with 0 or 500000 microseconds
LogTimes == 0..MaxLogTime
SecondOf(k) == 9 + k \div 2
MicroOf(k) == (k % 2) * 500000

\* character codes of "+", ".", "0" and ":"
Ch == [plus |-> 43, dot |-> 46, zero |-> 48, colon |-> 58]

Pow10(n) == IF n = 0 THEN 1 ELSE IF n = 1 THEN 10 ELSE IF n = 2 THEN 100
            ELSE IF n = 3 THEN 1000 ELSE IF n = 4 THEN 10000 ELSE 100000

\* datetime.isoformat() of an aware UTC datetime, as character codes, from
\* the seconds on (the date, hour and minute before them are the same for
\* all instants): two digits of seconds, ".ffffff" unless the microseconds
\* are 0, then "+00:00"
isoformat(k) ==
    <<Ch.zero + (SecondOf(k) \div 10), Ch.zero + (SecondOf(k) % 10)>>
    \o (IF MicroOf(k) = 0 THEN <<>>
        ELSE <<Ch.dot>> \o [i \in 1..6 |->
                             Ch.zero + ((MicroOf(k) \div Pow10(6 - i)) % 10)])
    \o <<Ch.plus, Ch.zero, Ch.zero, Ch.colon, Ch.zero, Ch.zero>>

\* Python's `a < b` on str: by code point, a proper prefix is smaller
RECURSIVE StrLess(_, _)
StrLess(a, b) ==
    IF b = <<>> THEN FALSE
    ELSE IF a = <<>> THEN TRUE
    ELSE IF a[1] # b[1] THEN a[1] < b[1]
    ELSE StrLess(Tail(a), Tail(b))

\* a reader that also returns the entries at the cursor
newer_OrEqual(ts, since) == ~StrLess(ts, since)

\* `e["ts"] > since`
newer(ts, since) == StrLess(since, ts)

\* deque(maxlen = LogCap).append
deque_append(q, e) ==
    IF Len(q) < LogCap THEN Append(q, e) ELSE Append(Tail(q), e)

\* _handle_get_log: the snapshot of the deque, filtered when a cursor is given
get_log(q, since) ==
    IF since = None THEN q
    ELSE SelectSeq(q, LAMBDA e : newer(e.ts, Val(since)))

\* clock is the wall clock; an entry carries its "ts" string and, as an
\* observation, the instant it was written at; last is the last response of
\* GET /api/log with the instant its cursor was taken at (cursor FALSE: no
\* since parameter) and the deque it was computed from
NoRead == [done |-> FALSE, cursor |-> FALSE, at |-> 0, entries |-> <<>>,
           from |-> <<>>]

LogInit ==
    [clock |-> 0, entries |-> <<>>, last |-> NoRead,
     writes |-> MaxWrites, reads |-> MaxReads]

\* ---------------------------------------------------------------------------
\* WiFi controller (wifi_controller.py; every block under _lock is one step)
\* ---------------------------------------------------------------------------

Clients == 1..MaxClients
Ssids == {"lab", "home"}
Channels == {1, 6}
Passwords == {"", "secret"}
Macs == {"aa:01"}

\* a calling thread: where it is, the arguments it carries, whether its
\* sta_join is the internal one of set_mode, and how its last call ended
IdleClient == [pc |-> "idle", ssid |-> "", password |-> "", channel |-> 0,
               internal |-> FALSE, res |-> "none"]

\* _ap_*, _sta_*, _saved_ap, _stations, _mode and _mode_ssid, the processes
\* on the interface (hostapd, dnsmasq, the wpa_supplicant daemon), and as an
\* observations the number of ap_stop calls made in a row and the access
\* point that was up when the latest sta_join since the last sta_leave began
RadioInit ==
    [mode |-> "wifi-testing", mode_ssid |-> "",
     ap_active |-> FALSE, ap_ssid |-> "", ap_password |-> "", ap_channel |-> 0,
     hostapd |-> FALSE, dnsmasq |-> FALSE,
     sta_active |-> FALSE, sta_ssid |-> "", wpa |-> FALSE,
     saved_ap |-> None, stations |-> {},
     stops |-> 0, before_join |-> None, ops |-> MaxRadioOps, leases |-> MaxLeases,
     cl |-> [c \in Clients |-> IdleClient]]

\* an ap_stop that leaves the station table alone
ap_stop_unlocked_KeepStations(r) ==
    [r EXCEPT !.dnsmasq = FALSE, !.hostapd = FALSE, !.ap_active = FALSE,
              !.ap_ssid = "", !.ap_password = "", !.ap_channel = 0]

\* _ap_stop_unlocked
ap_stop_unlocked(r) ==
    [r EXCEPT !.dnsmasq = FALSE, !.hostapd = FALSE, !.ap_active = FALSE,
              !.ap_ssid = "", !.ap_password = "", !.ap_channel = 0,
              !.stations = {}]

\* _sta_stop_unlocked
sta_stop_unlocked(r) ==
    [r EXCEPT !.wpa = FALSE, !.sta_active = FALSE, !.sta_ssid = ""]

\* a combined stop that forgets the access point
stop_all_unlocked_StaOnly(r) == sta_stop_unlocked(r)

\* _stop_all_unlocked
stop_all_unlocked(r) == sta_stop_unlocked(ap_stop_unlocked(r))

\* ap_start under the lock: everything is stopped, then hostapd and dnsmasq
\* are started; out is how that went.  hostapd exiting and dnsmasq exiting
\* (hostapd is then killed) leave no process; an exception elsewhere
\* (out = "error") leaves hostapd as it is (h)
ap_start_locked(r, ssid, password, channel, out, h) ==
    LET r1 == stop_all_unlocked(r)
    IN CASE out = "ok" ->
              [r1 EXCEPT !.hostapd = TRUE, !.dnsmasq = TRUE, !.ap_active = TRUE,
                         !.ap_ssid = ssid, !.ap_password = password,
                         !.ap_channel = channel, !.stations = {}]
         [] out = "hostapd failed" -> r1
         [] out = "dnsmasq failed" -> r1
         [] OTHER -> [r1 EXCEPT !.hostapd = h]

ApStartOutcomes == {"ok", "hostapd failed", "dnsmasq failed", "error"}

\* the access point that is up, if any
ApConfig(r) ==
    IF r.ap_active
    THEN Some([ssid |-> r.ap_ssid, password |-> r.ap_password,
               channel |-> r.ap_channel])
    ELSE None

\* a sta_join that saves the AP without its password
saved_ap_config_NoPassword(r) ==
    IF r.ap_active
    THEN Some([ssid |-> r.ap_ssid, password |-> "", channel |-> r.ap_channel])
    ELSE None

\* sta_join, "Save AP config so sta_leave can restore it"
saved_ap_config(r) ==
    IF r.ap_active
    THEN Some([ssid |-> r.ap_ssid, password |-> r.ap_password,
               channel |-> r.ap_channel])
    ELSE None

\* sta_join under the lock: the AP's configuration is saved when it is
\* active, everything is stopped, then wpa_supplicant is started; a join
\* that does not connect or gets no address stops the station again, an
\* exception elsewhere (out = "error") leaves the daemon as it is (d)
sta_join_locked(r, ssid, out, d) ==
    LET r0 == [r EXCEPT !.saved_ap = saved_ap_config(r)]
        r1 == stop_all_unlocked(r0)
    IN CASE out = "ok" ->
              [r1 EXCEPT !.wpa = TRUE, !.sta_active = TRUE, !.sta_ssid = ssid]
         [] out = "not connected" -> sta_stop_unlocked([r1 EXCEPT !.wpa = TRUE])
         [] out = "no ip" -> sta_stop_unlocked([r1 EXCEPT !.wpa = TRUE])
         [] OTHER -> [r1 EXCEPT !.wpa = d]

StaJoinOutcomes == {"ok", "not connected", "no ip", "error"}

\* ---------------------------------------------------------------------------
\* Locks: slot["_lock"], _gpio_lock, _human_lock and wifi_controller._lock
\* ---------------------------------------------------------------------------

LockNames == {"slot", "gpio", "human", "radio"}
LkThreads == 1..MaxLockThreads

Acq(l) == <<"acquire", l>>
Rel(l) == <<"release", l>>
\* a `with l:` block whose body takes no lock
With(l) == <<Acq(l), Rel(l)>>

\* What an operation does to the locks, in order, one sequence per path.
\* `with slot["_lock"]` around stop_proxy and start_proxy: the boot scan,
\* _bg_start, _bg_stop, /api/start, /api/stop and _start_flap_recovery
slot_block_locks == {With("slot")}

\* serial_reset: the block that stops the proxy, and unless the open fails
\* the block that restarts it
serial_reset_locks == {With("slot"), With("slot") \o With("slot")}

\* _gpio_set is one block under _gpio_lock.  _recover_with_gpio and
\* _release_slot_gpio call it for BOOT and, with gpio_en, twice for EN; a
\* call that raises ends the sequence.  /api/gpio/set and /api/gpio/status
\* are one block
gpio_locks ==
    {With("gpio"), With("gpio") \o With("gpio"),
     With("gpio") \o With("gpio") \o With("gpio")}

\* _handle_human_interaction: the block that registers the request (or
\* answers 409 inside it), the wait with no lock held, and the block that
\* reads the result; done, cancel and status are one block
human_locks == {With("human"), With("human") \o With("human")}

\* a set_mode that joins the network while it still holds the lock
set_mode_locks_JoinUnderLock ==
    {<<Acq("radio")>> \o With("radio") \o <<Rel("radio")>>}

\* set_mode: the block that switches (the only one when the mode is the
\* same); to wifi-testing, get_mode follows; to serial-interface, the block
\* of sta_join follows the release, and then get_mode or the revert block
set_mode_locks ==
    {With("radio"), With("radio") \o With("radio"),
     With("radio") \o With("radio") \o With("radio")}

\* sta_leave: its block, and behind the release the block of ap_start when an
\* AP was saved and the mode check passes
sta_leave_locks == {With("radio"), With("radio") \o With("radio")}

\* get_mode, ap_start, ap_stop, ap_status, sta_join, shutdown: one block
radio_block_locks == {With("radio")}

LockPrograms ==
    slot_block_locks \cup serial_reset_locks \cup gpio_locks \cup human_locks
    \cup set_mode_locks \cup sta_leave_locks \cup radio_block_locks

\* no lock is held (0) and no thread is inside an operation
LkInit ==
    [owner |-> [l \in LockNames |-> 0],
     th |-> [t \in LkThreads |-> <<>>],
     calls |-> MaxLockCalls]

\* the lock thread t is about to acquire, if any
WaitingFor(t) ==
    IF lk.th[t] # <<>> /\ Head(lk.th[t])[1] = "acquire"
    THEN {Head(lk.th[t])[2]} ELSE {}

HeldBy(t) == {l \in LockNames : lk.owner[l] = t}

\* a thread begins an operation
LkCall(t) ==
    /\ lk.th[t] = <<>>
    /\ lk.calls > 0
    /\ \E p \in LockPrograms :
         lk' = [lk EXCEPT !.th[t] = p, !.calls = @ - 1]
    /\ UNCHANGED <<slotvars, human, activity_log, radio>>

\* threading.Lock.acquire: the thread goes on only when nobody holds the
\* lock, itself included
LkAcquire(t) ==
    /\ \E l \in WaitingFor(t) :
         /\ lk.owner[l] = 0
         /\ lk' = [lk EXCEPT !.owner[l] = t, !.th[t] = Tail(@)]
    /\ UNCHANGED <<slotvars, human, activity_log, radio>>

\* the end of the `with` block, by return or by exception
LkRelease(t) ==
    /\ lk.th[t] # <<>>
    /\ Head(lk.th[t])[1] = "release"
    /\ lk' = [lk EXCEPT !.owner[Head(lk.th[t])[2]] = 0, !.th[t] = Tail(@)]
    /\ UNCHANGED <<slotvars, human, activity_log, radio>>

LkStep == \E t \in LkThreads : LkCall(t) \/ LkAcquire(t) \/ LkRelease(t)

InitWith(c, b) ==
    /\ cfg = c
    /\ slot = load_config(c)
    /\ seq_counter = 0
    /\ lock = "free"
    /\ procs = {}
    /\ next_pid = 1
    /\ gpio = [p \in Pins |-> "unset"]
    /\ usb = [bound |-> TRUE]
    /\ now = 0
    /\ serving = FALSE
    /\ hp = [h \in Handlers |-> IdleHandler]
    /\ bg = IdleBg
    /\ ctl = IdleCtl
    /\ rec = [i \in RecIds |-> NoRec]
    /\ budget = b
    /\ hist = [assigned |-> <<>>, reported |-> <<>>, quiet |-> FALSE, cycles |-> 0,
               start_failed |-> FALSE]
    /\ human = HumanInit
    /\ activity_log = LogInit
    /\ radio = RadioInit
    /\ lk = LkInit

\* scan_existing_devices, no serial device node found
BootScanNone ==
    /\ ~serving
    /\ serving' = TRUE
    /\ UNCHANGED <<cfg, slot, seq_counter, lock, procs, next_pid, gpio, usb, now,
                   hp, bg, ctl, rec, budget, hist>>
    /\ UNCHANGED elsewhere

\* scan_existing_devices, the slot's device is plugged in: the slot is marked
\* present and idle, and a configured slot gets its proxy started under the
\* lock (no other thread runs yet, so start_proxy is one step here)
BootScanFound ==
    /\ ~serving
    /\ serving' = TRUE
    /\ LET s1 == [slot EXCEPT !.present = TRUE, !.devnode = Some(DEVNODE),
                              !.state = STATE_IDLE]
       IN IF cfg.tcp_port # None /\ ~s1.running
          THEN \/ /\ slot' = start_proxy_early_fail(s1)
                  /\ UNCHANGED <<procs, next_pid>>
               \/ /\ slot' = start_proxy_ok(s1, next_pid)
                  /\ procs' = procs \cup {next_pid}
                  /\ next_pid' = next_pid + 1
               \/ /\ slot' \in {start_proxy_exited(s1), start_proxy_no_port(s1)}
                  /\ next_pid' = next_pid + 1
                  /\ UNCHANGED procs
          ELSE slot' = s1 /\ UNCHANGED <<procs, next_pid>>
    /\ UNCHANGED <<cfg, seq_counter, lock, gpio, usb, now, hp, bg, ctl, rec,
                   budget, hist>>
    /\ UNCHANGED elsewhere

\* ---------------------------------------------------------------------------
\* Environment
\* ---------------------------------------------------------------------------

\* a proxy child dies on its own (the portal did not signal it)
ProcDies ==
    /\ budget.deaths > 0
    /\ \E p \in procs : procs' = procs \ {p}
    /\ budget' = [budget EXCEPT !.deaths = @ - 1]
    /\ UNCHANGED <<cfg, slot, seq_counter, lock, next_pid, gpio, usb, now,
                   serving, hp, bg, ctl, rec, hist>>
    /\ UNCHANGED elsewhere

\* ---------------------------------------------------------------------------
\* POST /api/hotplug: Handler._handle_hotplug
\* ---------------------------------------------------------------------------

\* The request is parsed, the slot looked up, and `seq_counter += 1` loads the
\* counter (the load and the store of the unlocked increment are two steps).
HRecv(h) ==
    /\ serving
    /\ hp[h].pc = "idle"
    /\ \A g \in Handlers : hp[g].pc = "idle" => h <= g
    /\ Cardinality({g \in Handlers : hp[g].pc # "idle"}) < budget.conc
    /\ budget.events > 0
    /\ \E a \in {"add", "remove"} :
         hp' = [hp EXCEPT ![h] = [pc |-> "seq", action |-> a, tmp |-> seq_counter]]
    /\ budget' = [budget EXCEPT !.events = @ - 1]
    /\ UNCHANGED <<cfg, slot, seq_counter, lock, procs, next_pid, gpio, usb, now,
                   serving, bg, ctl, rec, hist>>
    /\ UNCHANGED elsewhere

\* a handler without the early exit
hotplug_early_exit_Never(s) == FALSE

\* `if slot["_recovering"]:`, the early exit of _handle_hotplug
hotplug_early_exit(s) == s._recovering

\* the response of _handle_hotplug without its "ok", "slot_key" and "seq":
\* constants on the early exit (pc "dropped"), otherwise read from the slot
hotplug_response(pc, c, s) ==
    IF pc = "dropped"
    THEN [accepted |-> FALSE, flapping |-> TRUE, recovering |-> TRUE]
    ELSE [accepted |-> c.tcp_port # None, flapping |-> s.flapping,
          recovering |-> s._recovering]

\* The increment is stored, slot["seq"] and last_action are written, and the
\* early exit tests _recovering.
HSeq(h) ==
    /\ hp[h].pc = "seq"
    /\ seq_counter' = hp[h].tmp + 1
    /\ slot' = [slot EXCEPT !.seq = seq_counter', !.last_action = Some(hp[h].action)]
    /\ hist' = [hist EXCEPT !.assigned = Append(@, seq_counter')]
    /\ hp' = [hp EXCEPT ![h].pc =
                 IF hotplug_early_exit(slot) THEN "dropped" ELSE "flap"]
    /\ UNCHANGED <<cfg, lock, procs, next_pid, gpio, usb, now, serving, bg, ctl,
                   rec, budget>>
    /\ UNCHANGED elsewhere

\* Flap detection: the event time is appended, the window pruned, a flapping
\* slot that has been quiet is cleared, and a slot that is not flapping with
\* FLAP_THRESHOLD events in the window becomes flapping and calls
\* _start_flap_recovery.
HFlap(h) ==
    /\ hp[h].pc = "flap"
    /\ \E t \in ClockReads :
         /\ ClockRead(t)
         /\ LET s1 == [slot EXCEPT !._event_times = Prune(Append(@, t), t)]
                s2 == QuietCheck(s1)
            IN IF FlapDetected(s2)
               THEN /\ slot' = FlapStart(s2)
                    /\ hp' = [hp EXCEPT ![h].pc = "sfr_check"]
               ELSE /\ slot' = s2
                    /\ hp' = [hp EXCEPT ![h].pc = "dispatch"]
         /\ hist' = [hist EXCEPT
                       !.quiet = QuietGap(slot, t),
                       !.cycles = IF FlapDetected(QuietCheck(
                                        [slot EXCEPT !._event_times = Prune(Append(@, t), t)]))
                                  THEN @ + 1 ELSE @]
    /\ UNCHANGED <<cfg, seq_counter, lock, procs, next_pid, gpio, usb, serving,
                   bg, ctl, rec>>
    /\ UNCHANGED elsewhere

\* Dispatch by action.  add: present, devnode, state idle unless flapping, and
\* for a configured slot that is not flapping a background start task.
\* remove: present false, state absent unless flapping, and a background stop
\* task when a configured slot's proxy is running.
HDispatch(h) ==
    /\ hp[h].pc = "dispatch"
    /\ IF hp[h].action = "add"
       THEN LET s1 == [slot EXCEPT !.present = TRUE, !.devnode = Some(DEVNODE)]
                s2 == IF ~s1.flapping THEN [s1 EXCEPT !.state = STATE_IDLE] ELSE s1
            IN /\ slot' = s2
               /\ IF ~s2.flapping /\ cfg.tcp_port # None
                  THEN /\ bg.start_wait < MaxBg
                       /\ bg' = [bg EXCEPT !.start_wait = @ + 1]
                  ELSE UNCHANGED bg
       ELSE LET s1 == [slot EXCEPT !.present = FALSE]
                s2 == IF ~s1.flapping THEN [s1 EXCEPT !.state = STATE_ABSENT] ELSE s1
            IN /\ slot' = s2
               /\ IF cfg.tcp_port # None /\ s2.running
                  THEN /\ bg.stop_wait < MaxBg
                       /\ bg' = [bg EXCEPT !.stop_wait = @ + 1]
                  ELSE UNCHANGED bg
    /\ hp' = [hp EXCEPT ![h].pc = "respond"]
    /\ UNCHANGED <<cfg, seq_counter, lock, procs, next_pid, gpio, usb, now,
                   serving, ctl, rec, budget, hist>>
    /\ UNCHANGED elsewhere

\* The response is sent: its "seq" is the module-level seq_counter as it is now.
HRespond(h) ==
    /\ hp[h].pc \in {"respond", "dropped"}
    /\ hist' = [hist EXCEPT !.reported = Append(@, seq_counter)]
    /\ hp' = [hp EXCEPT ![h] = IdleHandler]
    /\ UNCHANGED <<cfg, slot, seq_counter, lock, procs, next_pid, gpio, usb, now,
                   serving, bg, ctl, rec, budget>>
    /\ UNCHANGED elsewhere

\* ---------------------------------------------------------------------------
\* _start_flap_recovery, run on the thread of its caller c
\* ---------------------------------------------------------------------------

\* `if slot["_recovering"]: return`
SfrCheck(c) ==
    /\ PcOf(c) = "sfr_check"
    /\ IF slot._recovering THEN Return(c) ELSE Goto(c, "sfr_set")
    /\ UNCHANGED <<cfg, slot, seq_counter, lock, procs, next_pid, gpio, usb, now,
                   serving, bg, rec, budget, hist>>
    /\ UNCHANGED elsewhere

\* _recovering = True, state = recovering
SfrSet(c) ==
    /\ PcOf(c) = "sfr_set"
    /\ slot' = [slot EXCEPT !._recovering = TRUE, !.state = STATE_RECOVERING]
    /\ Goto(c, "sfr_lock")
    /\ UNCHANGED <<cfg, seq_counter, lock, procs, next_pid, gpio, usb, now,
                   serving, bg, rec, budget, hist>>
    /\ UNCHANGED elsewhere

\* the proxy is stopped under the slot lock if it is still running
SfrStop(c) ==
    /\ PcOf(c) = "sfr_lock"
    /\ lock = "free"
    /\ slot' = StopIfRunning(slot)
    /\ procs' = StopIfRunningProcs(slot, procs)
    /\ Goto(c, "sfr_unbind")
    /\ UNCHANGED <<cfg, seq_counter, lock, next_pid, gpio, usb, now, serving, bg,
                   rec, budget, hist>>
    /\ UNCHANGED elsewhere

\* The USB device is unbound (the result of _usb_unbind is not looked at) and
\* the recovery thread for the slot's wiring is started; a slot_key that names
\* no USB device ends the recovery here.
SfrUnbind(c) ==
    /\ PcOf(c) = "sfr_unbind"
    /\ IF cfg.key_ok
       THEN /\ \E ok \in BOOLEAN : usb' = [usb EXCEPT !.bound = IF ok THEN FALSE ELSE @]
            /\ \E i \in FreeRec :
                 /\ \A j \in FreeRec : i <= j
                 /\ rec' = [rec EXCEPT ![i] =
                       [pc |-> IF cfg.gpio_boot # None THEN "g_cooldown" ELSE "n_start",
                        retry |-> 0, by |-> c]]
            /\ UNCHANGED slot
       ELSE /\ slot' = [slot EXCEPT !._recovering = FALSE, !.state = STATE_FLAPPING]
            /\ UNCHANGED <<usb, rec>>
    /\ Return(c)
    /\ UNCHANGED <<cfg, seq_counter, lock, procs, next_pid, gpio, now, serving,
                   bg, budget, hist>>
    /\ UNCHANGED elsewhere

\* ---------------------------------------------------------------------------
\* start_proxy, from the spawn of the child on
\* ---------------------------------------------------------------------------

\* The outcomes of start_proxy once child p was spawned, as <<slot, processes,
\* ok>>: p has exited when it is polled; or p is alive and the port is
\* listening; or the port never comes up and p is stopped.
StartEndOutcomes(s, p) ==
    (IF ~_is_process_alive(p)
     THEN { <<start_proxy_exited(s), procs, FALSE>> }
     ELSE { <<start_proxy_ok(s, p), procs, TRUE>> :
                a \in {b \in BOOLEAN : is_port_listening(cfg.tcp_port, b)} })
    \cup { <<start_proxy_no_port(s), _stop_pid(procs, p), FALSE>> }

\* ---------------------------------------------------------------------------
\* Background tasks of the hotplug handler
\* ---------------------------------------------------------------------------

\* _bg_start, the line after start_proxy
BgPost(s) ==
    IF s.flapping
    THEN [s EXCEPT !.last_error = Some("USB flapping detected - device is cycling")]
    ELSE s

\* _bg_start takes the lock: it returns if the slot is flapping or recovering,
\* else stops a running proxy and calls start_proxy, which fails before the
\* spawn or spawns the child.
BgStartBegin ==
    /\ bg.start_wait > 0
    /\ lock = "free"
    /\ IF slot.flapping \/ slot._recovering
       THEN /\ bg' = [bg EXCEPT !.start_wait = @ - 1]
            /\ UNCHANGED <<slot, procs, next_pid, lock, hist>>
       ELSE LET s1 == StopIfRunning(slot)
                ps1 == StopIfRunningProcs(slot, procs)
            IN \/ /\ slot' = BgPost(start_proxy_early_fail(s1))
                  /\ procs' = ps1
                  /\ bg' = [bg EXCEPT !.start_wait = @ - 1]
                  /\ hist' = [hist EXCEPT !.start_failed = @ \/ budget.events = 0]
                  /\ UNCHANGED <<next_pid, lock>>
               \/ /\ next_pid <= MaxPid
                  /\ slot' = s1
                  /\ procs' = ps1 \cup {next_pid}
                  /\ next_pid' = next_pid + 1
                  /\ bg' = [bg EXCEPT !.start_wait = @ - 1, !.pc = "spawned",
                                      !.proc = next_pid]
                  /\ lock' = "bg"
                  /\ UNCHANGED hist
    /\ UNCHANGED <<cfg, seq_counter, gpio, usb, now, serving, hp, ctl, rec,
                   budget>>
    /\ UNCHANGED elsewhere

\* _bg_start, start_proxy returns and the lock is released
BgStartEnd ==
    /\ bg.pc = "spawned"
    /\ \E o \in StartEndOutcomes(slot, bg.proc) :
         /\ slot' = BgPost(o[1])
         /\ procs' = o[2]
         /\ hist' = [hist EXCEPT !.start_failed = @ \/ (~o[3] /\ budget.events = 0)]
    /\ bg' = [bg EXCEPT !.pc = "none", !.proc = 0]
    /\ lock' = "free"
    /\ UNCHANGED <<cfg, seq_counter, next_pid, gpio, usb, now, serving, hp, ctl,
                   rec, budget>>
    /\ UNCHANGED elsewhere

\* _bg_stop: stop_proxy under the lock
BgStop ==
    /\ bg.stop_wait > 0
    /\ lock = "free"
    /\ slot' = stop_proxy(slot)
    /\ procs' = stop_proxy_procs(slot, procs)
    /\ bg' = [bg EXCEPT !.stop_wait = @ - 1]
    /\ UNCHANGED <<cfg, seq_counter, lock, next_pid, gpio, usb, now, serving, hp,
                   ctl, rec, budget, hist>>
    /\ UNCHANGED elsewhere

\* ---------------------------------------------------------------------------
\* Recovery threads
\* ---------------------------------------------------------------------------

recover_with_gpio_done_KeepFlapping(s) ==
    [s EXCEPT !._recovering = FALSE, !._recover_retries = 0,
              !.state = STATE_DOWNLOAD_MODE, !.last_error = None]

\* _recover_with_gpio, last assignments
recover_with_gpio_done(s) ==
    [s EXCEPT !._recovering = FALSE, !.flapping = FALSE, !._recover_retries = 0,
              !.state = STATE_DOWNLOAD_MODE, !.last_error = None]

\* an abort that leaves the recovery flag set
recover_abort_StillRecovering(s) == [s EXCEPT !.state = STATE_FLAPPING]

\* _recover_with_gpio / _start_flap_recovery, recovery given up
recover_abort(s) == [s EXCEPT !._recovering = FALSE, !.state = STATE_FLAPPING]

\* _recover_without_gpio, retries exhausted
recover_exhausted(s) ==
    [s EXCEPT !._recovering = FALSE, !.state = STATE_FLAPPING,
              !.last_error = Some("Recovery failed - needs manual intervention")]

\* mutant: the attempt is not counted
recover_without_gpio_done_NoIncrement(s, retry) ==
    [s EXCEPT !._recover_retries = retry, !._recovering = FALSE,
              !.flapping = FALSE, !._event_times = <<>>, !.last_error = None,
              !.state = STATE_IDLE]

\* _recover_without_gpio, assignments after the cooldown (retry was read
\* before it)
recover_without_gpio_done(s, retry) ==
    [s EXCEPT !._recover_retries = retry + 1, !._recovering = FALSE,
              !.flapping = FALSE, !._event_times = <<>>, !.last_error = None,
              !.state = STATE_IDLE]

\* after the cooldown BOOT is driven low; a GPIO error gives the recovery up
RecGpioBoot(i) ==
    /\ rec[i].pc = "g_cooldown"
    /\ \/ /\ gpio' = [gpio EXCEPT ![Val(cfg.gpio_boot)] = "low"]
          /\ rec' = [rec EXCEPT ![i].pc = "g_en"]
          /\ UNCHANGED slot
       \/ /\ slot' = recover_abort(slot)
          /\ rec' = [rec EXCEPT ![i] = NoRec]
          /\ UNCHANGED gpio
    /\ UNCHANGED <<cfg, seq_counter, lock, procs, next_pid, usb, now, serving, hp,
                   bg, ctl, budget, hist>>
    /\ UNCHANGED elsewhere

\* the EN pulse, when the slot has the pin: EN is driven low; a GPIO error is
\* logged and ends the pulse
RecGpioEn(i) ==
    /\ rec[i].pc = "g_en"
    /\ IF cfg.gpio_en = None
       THEN /\ rec' = [rec EXCEPT ![i].pc = "g_rebind"]
            /\ UNCHANGED gpio
       ELSE \/ /\ gpio' = [gpio EXCEPT ![Val(cfg.gpio_en)] = "low"]
               /\ rec' = [rec EXCEPT ![i].pc = "g_en_high"]
            \/ /\ rec' = [rec EXCEPT ![i].pc = "g_rebind"]
               /\ UNCHANGED gpio
    /\ UNCHANGED <<cfg, slot, seq_counter, lock, procs, next_pid, usb, now,
                   serving, hp, bg, ctl, budget, hist>>
    /\ UNCHANGED elsewhere

\* after the 100 ms dwell EN is driven high; a GPIO error is logged and leaves
\* EN low
RecGpioEnHigh(i) ==
    /\ rec[i].pc = "g_en_high"
    /\ \E ok \in BOOLEAN :
         gpio' = IF ok THEN [gpio EXCEPT ![Val(cfg.gpio_en)] = "high"] ELSE gpio
    /\ rec' = [rec EXCEPT ![i].pc = "g_rebind"]
    /\ UNCHANGED <<cfg, slot, seq_counter, lock, procs, next_pid, usb, now,
                   serving, hp, bg, ctl, budget, hist>>
    /\ UNCHANGED elsewhere

\* the USB device is rebound (the result of _usb_rebind is not looked at)
RecGpioRebind(i) ==
    /\ rec[i].pc = "g_rebind"
    /\ \E ok \in BOOLEAN : usb' = [usb EXCEPT !.bound = IF ok THEN TRUE ELSE @]
    /\ rec' = [rec EXCEPT ![i].pc = "g_settle"]
    /\ UNCHANGED <<cfg, slot, seq_counter, lock, procs, next_pid, gpio, now,
                   serving, hp, bg, ctl, budget, hist>>
    /\ UNCHANGED elsewhere

\* after the settle time the slot is put in download mode
RecGpioDone(i) ==
    /\ rec[i].pc = "g_settle"
    /\ slot' = recover_with_gpio_done(slot)
    /\ rec' = [rec EXCEPT ![i] = NoRec]
    /\ UNCHANGED <<cfg, seq_counter, lock, procs, next_pid, gpio, usb, now,
                   serving, hp, bg, ctl, budget, hist>>
    /\ UNCHANGED elsewhere

\* _recover_without_gpio reads the retry counter: at FLAP_MAX_RETRIES it gives
\* up, else it sleeps the cooldown
RecNoGpioStart(i) ==
    /\ rec[i].pc = "n_start"
    /\ IF slot._recover_retries >= FLAP_MAX_RETRIES
       THEN /\ slot' = recover_exhausted(slot)
            /\ rec' = [rec EXCEPT ![i] = NoRec]
       ELSE /\ rec' = [rec EXCEPT ![i].pc = "n_cooldown",
                                  ![i].retry = slot._recover_retries]
            /\ UNCHANGED slot
    /\ UNCHANGED <<cfg, seq_counter, lock, procs, next_pid, gpio, usb, now,
                   serving, hp, bg, ctl, budget, hist>>
    /\ UNCHANGED elsewhere

\* after the cooldown the slot is reset to idle and the USB device rebound
RecNoGpioDone(i) ==
    /\ rec[i].pc = "n_cooldown"
    /\ slot' = recover_without_gpio_done(slot, rec[i].retry)
    /\ \E ok \in BOOLEAN : usb' = [usb EXCEPT !.bound = IF ok THEN TRUE ELSE @]
    /\ rec' = [rec EXCEPT ![i] = NoRec]
    /\ UNCHANGED <<cfg, seq_counter, lock, procs, next_pid, gpio, now, serving,
                   hp, bg, ctl, budget, hist>>
    /\ UNCHANGED elsewhere

\* The end of _recover_without_gpio in the order of its statements, for the
\* specifications that look at that order: after the cooldown the counter is
\* written, _recovering and flapping are cleared and the state becomes idle,
RecNoGpioClear(i) ==
    /\ rec[i].pc = "n_cooldown"
    /\ slot' = recover_without_gpio_done(slot, rec[i].retry)
    /\ rec' = [rec EXCEPT ![i].pc = "n_rebind"]
    /\ UNCHANGED <<cfg, seq_counter, lock, procs, next_pid, gpio, usb, now,
                   serving, hp, bg, ctl, budget, hist>>
    /\ UNCHANGED elsewhere

\* and then the USB device is rebound and the thread ends
RecNoGpioRebind(i) ==
    /\ rec[i].pc = "n_rebind"
    /\ \E ok \in BOOLEAN : usb' = [usb EXCEPT !.bound = IF ok THEN TRUE ELSE @]
    /\ rec' = [rec EXCEPT ![i] = NoRec]
    /\ UNCHANGED <<cfg, slot, seq_counter, lock, procs, next_pid, gpio, now,
                   serving, hp, bg, ctl, budget, hist>>
    /\ UNCHANGED elsewhere

\* ---------------------------------------------------------------------------
\* Control surface, one request of the client at a time
\* ---------------------------------------------------------------------------

CtlIdle == serving /\ ctl.pc = "idle" /\ budget.calls > 0
CtlCall == budget' = [budget EXCEPT !.calls = @ - 1]

\* _handle_start, "ensure idle on failure too"
StartFailed(s) ==
    IF s.state \notin {STATE_IDLE, STATE_FLAPPING}
    THEN [s EXCEPT !.state = STATE_IDLE] ELSE s

\* `slot_key in slots`: a configured slot from load_config on, a dynamic one
\* once the boot scan or a hotplug event has created it
SlotKnown ==
    \/ cfg.tcp_port # None
    \/ slot.present
    \/ slot.last_action # None
    \/ \E h \in Handlers : hp[h].pc # "idle"

\* POST /api/start: under the lock a running proxy is stopped, devnode and
\* present are set, and start_proxy fails before the spawn or spawns the child
ApiStartBegin ==
    /\ CtlIdle
    /\ SlotKnown
    /\ lock = "free"
    /\ LET s1 == [StopIfRunning(slot) EXCEPT !.devnode = Some(DEVNODE),
                                               !.present = TRUE]
           ps1 == StopIfRunningProcs(slot, procs)
       IN \/ /\ slot' = StartFailed(start_proxy_early_fail(s1))
             /\ procs' = ps1
             /\ UNCHANGED <<next_pid, lock, ctl>>
          \/ /\ next_pid <= MaxPid
             /\ slot' = s1
             /\ procs' = ps1 \cup {next_pid}
             /\ next_pid' = next_pid + 1
             /\ ctl' = [pc |-> "start_spawned", proc |-> next_pid]
             /\ lock' = "ctl"
    /\ CtlCall
    /\ UNCHANGED <<cfg, seq_counter, gpio, usb, now, serving, hp, bg, rec, hist>>
    /\ UNCHANGED elsewhere

\* POST /api/start, start_proxy returns and the lock is released
ApiStartEnd ==
    /\ ctl.pc = "start_spawned"
    /\ \E o \in StartEndOutcomes(slot, ctl.proc) :
         /\ slot' = IF o[3] THEN o[1] ELSE StartFailed(o[1])
         /\ procs' = o[2]
    /\ ctl' = IdleCtl
    /\ lock' = "free"
    /\ UNCHANGED <<cfg, seq_counter, next_pid, gpio, usb, now, serving, hp, bg,
                   rec, budget, hist>>
    /\ UNCHANGED elsewhere

\* POST /api/stop
ApiStop ==
    /\ CtlIdle
    /\ SlotKnown
    /\ lock = "free"
    /\ LET s1 == stop_proxy(slot)
       IN slot' = [s1 EXCEPT !.state = IdleOrAbsent(s1)]
    /\ procs' = stop_proxy_procs(slot, procs)
    /\ CtlCall
    /\ UNCHANGED <<cfg, seq_counter, lock, next_pid, gpio, usb, now, serving, hp,
                   bg, ctl, rec, hist>>
    /\ UNCHANGED elsewhere

\* a serial_reset that leaves the state alone after the restart
ResetFinished_Keep(s) == s

\* serial_reset, `if state == resetting` after the restart
ResetFinished(s) ==
    IF s.state = STATE_RESETTING THEN [s EXCEPT !.state = IdleOrAbsent(s)] ELSE s

\* POST /api/serial/reset on a present slot with a devnode: the proxy is
\* stopped under the lock and the state becomes resetting
ResetBegin ==
    /\ CtlIdle
    /\ slot.devnode # None /\ slot.present
    /\ lock = "free"
    /\ slot' = [stop_proxy(slot) EXCEPT !.state = STATE_RESETTING]
    /\ procs' = stop_proxy_procs(slot, procs)
    /\ ctl' = [ctl EXCEPT !.pc = "reset_open"]
    /\ CtlCall
    /\ UNCHANGED <<cfg, seq_counter, lock, next_pid, gpio, usb, now, serving, hp,
                   bg, rec, hist>>
    /\ UNCHANGED elsewhere

\* serial_reset opens the device node: on failure the state is put back
\* (without the lock) and the call returns; else DTR/RTS are pulsed and the
\* boot output read
ResetOpen ==
    /\ ctl.pc = "reset_open"
    /\ \/ /\ slot' = [slot EXCEPT !.state = IdleOrAbsent(slot)]
          /\ ctl' = IdleCtl
       \/ /\ ctl' = [ctl EXCEPT !.pc = "reset_restart"]
          /\ UNCHANGED slot
    /\ UNCHANGED <<cfg, seq_counter, lock, procs, next_pid, gpio, usb, now,
                   serving, hp, bg, rec, budget, hist>>
    /\ UNCHANGED elsewhere

\* serial_reset after the open: a write of DTR or RTS, or the read of the boot
\* output, raises (the device went away); nothing catches it, the call ends
\* without a result and the state is left as it is
ResetRaise ==
    /\ ctl.pc = "reset_restart"
    /\ ctl' = IdleCtl
    /\ UNCHANGED <<cfg, slot, seq_counter, lock, procs, next_pid, gpio, usb, now,
                   serving, hp, bg, rec, budget, hist>>
    /\ UNCHANGED elsewhere

\* serial_reset restarts the proxy under the lock unless it is running
ResetRestart ==
    /\ ctl.pc = "reset_restart"
    /\ lock = "free"
    /\ IF slot.running
       THEN /\ slot' = ResetFinished(slot)
            /\ ctl' = IdleCtl
            /\ UNCHANGED <<procs, next_pid, lock>>
       ELSE \/ /\ slot' = ResetFinished(start_proxy_early_fail(slot))
               /\ ctl' = IdleCtl
               /\ UNCHANGED <<procs, next_pid, lock>>
            \/ /\ next_pid <= MaxPid
               /\ procs' = procs \cup {next_pid}
               /\ next_pid' = next_pid + 1
               /\ ctl' = [pc |-> "reset_spawned", proc |-> next_pid]
               /\ lock' = "ctl"
               /\ UNCHANGED slot
    /\ UNCHANGED <<cfg, seq_counter, gpio, usb, now, serving, hp, bg, rec, budget,
                   hist>>
    /\ UNCHANGED elsewhere

\* serial_reset, start_proxy returns and the lock is released
ResetEnd ==
    /\ ctl.pc = "reset_spawned"
    /\ \E o \in StartEndOutcomes(slot, ctl.proc) :
         /\ slot' = ResetFinished(o[1])
         /\ procs' = o[2]
    /\ ctl' = IdleCtl
    /\ lock' = "free"
    /\ UNCHANGED <<cfg, seq_counter, next_pid, gpio, usb, now, serving, hp, bg,
                   rec, budget, hist>>
    /\ UNCHANGED elsewhere

\* POST /api/serial/monitor on a running configured slot whose proxy accepts
\* the connection: the state becomes monitoring (no lock)
MonitorBegin ==
    /\ CtlIdle
    /\ cfg.tcp_port # None /\ slot.running
    /\ slot' = [slot EXCEPT !.state = STATE_MONITORING]
    /\ ctl' = [ctl EXCEPT !.pc = "monitoring"]
    /\ CtlCall
    /\ UNCHANGED <<cfg, seq_counter, lock, procs, next_pid, gpio, usb, now,
                   serving, hp, bg, rec, hist>>
    /\ UNCHANGED elsewhere

\* serial_monitor, the `finally` clause
MonitorEnd ==
    /\ ctl.pc = "monitoring"
    /\ slot' = [slot EXCEPT !.state = IdleOrAbsent(slot)]
    /\ ctl' = IdleCtl
    /\ UNCHANGED <<cfg, seq_counter, lock, procs, next_pid, gpio, usb, now,
                   serving, hp, bg, rec, budget, hist>>
    /\ UNCHANGED elsewhere

serial_recover_reset_NoReset(s) == [s EXCEPT !.flapping = TRUE]

\* _handle_serial_recover: "Reset retry counter for fresh attempt"
serial_recover_reset(s) == [s EXCEPT !._recover_retries = 0, !.flapping = TRUE]

\* POST /api/serial/recover: the retry counter is reset, flapping is set, and
\* _start_flap_recovery is called
RecoverBegin ==
    /\ CtlIdle
    /\ slot' = serial_recover_reset(slot)
    /\ ctl' = [ctl EXCEPT !.pc = "sfr_check"]
    /\ CtlCall
    /\ UNCHANGED <<cfg, seq_counter, lock, procs, next_pid, gpio, usb, now,
                   serving, hp, bg, rec, hist>>
    /\ UNCHANGED elsewhere

\* a release that does not look at the slot's state
release_check_AnyState(c, s) ==
    IF c.gpio_boot = None THEN "no gpio_boot configured" ELSE "ok"

\* _release_slot_gpio, the two early returns
release_check(c, s) ==
    IF c.gpio_boot = None THEN "no gpio_boot configured"
    ELSE IF s.state # STATE_DOWNLOAD_MODE THEN "not in download_mode"
    ELSE "ok"

\* POST /api/serial/release on a slot with gpio_boot that is in download mode:
\* BOOT is released to input with pull-up; a GPIO error ends the call
ReleaseBegin ==
    /\ CtlIdle
    /\ release_check(cfg, slot) = "ok"
    /\ \/ /\ gpio' = [gpio EXCEPT ![Val(cfg.gpio_boot)] = "z"]
          /\ ctl' = [ctl EXCEPT !.pc = "release_en"]
       \/ UNCHANGED <<gpio, ctl>>
    /\ CtlCall
    /\ UNCHANGED <<cfg, slot, seq_counter, lock, procs, next_pid, usb, now,
                   serving, hp, bg, rec, hist>>
    /\ UNCHANGED elsewhere

\* _release_slot_gpio: EN is pulsed when the slot has it (a GPIO error is
\* logged and leaves EN as it was, or low), the state becomes idle and the
\* retry counter is reset
ReleaseEnd ==
    /\ ctl.pc = "release_en"
    /\ IF cfg.gpio_en # None
       THEN \E v \in {gpio[Val(cfg.gpio_en)], "low", "high"} :
                gpio' = [gpio EXCEPT ![Val(cfg.gpio_en)] = v]
       ELSE UNCHANGED gpio
    /\ slot' = [slot EXCEPT !.state = STATE_IDLE, !._recover_retries = 0]
    /\ ctl' = IdleCtl
    /\ UNCHANGED <<cfg, seq_counter, lock, procs, next_pid, usb, now, serving, hp,
                   bg, rec, budget, hist>>
    /\ UNCHANGED elsewhere

\* POST /api/serial/release returning early with {ok: false, error}: the
\* call touches nothing; the handler then logs the error and responds.
\* (A call that changes nothing but the number of calls left; only
\* SpecRelease includes it.)
ReleaseReject ==
    /\ CtlIdle
    /\ release_check(cfg, slot) # "ok"
    /\ ctl' = [ctl EXCEPT !.pc = "release_rejected"]
    /\ CtlCall
    /\ UNCHANGED <<cfg, slot, seq_counter, lock, procs, next_pid, gpio, usb, now,
                   serving, hp, bg, rec, hist>>
    /\ UNCHANGED elsewhere

\* _handle_serial_release, the response {ok: false, error}
ReleaseRespond ==
    /\ ctl.pc = "release_rejected"
    /\ ctl' = IdleCtl
    /\ UNCHANGED <<cfg, slot, seq_counter, lock, procs, next_pid, gpio, usb, now,
                   serving, hp, bg, rec, budget, hist>>
    /\ UNCHANGED elsewhere

\* POST /api/gpio/set {pin, value} for an allowed pin: _gpio_set
ApiGpioSet ==
    /\ CtlIdle
    /\ \E p \in Pins, v \in {"low", "high", "z"} : gpio' = [gpio EXCEPT ![p] = v]
    /\ CtlCall
    /\ UNCHANGED <<cfg, slot, seq_counter, lock, procs, next_pid, usb, now,
                   serving, hp, bg, ctl, rec, hist>>
    /\ UNCHANGED elsewhere

\* GET /api/devices, _refresh_slot_health: the test `running and pid` and the
\* liveness probe of the pid
PollCheck ==
    /\ CtlIdle
    /\ ctl' = [ctl EXCEPT !.pc =
                 IF slot.running /\ slot.pid # None /\ ~_is_process_alive(Val(slot.pid))
                 THEN "health_running" ELSE "slot_info"]
    /\ CtlCall
    /\ UNCHANGED <<cfg, slot, seq_counter, lock, procs, next_pid, gpio, usb, now,
                   serving, hp, bg, rec, hist>>
    /\ UNCHANGED elsewhere

\* _refresh_slot_health, slot["running"] = False (no lock)
PollHealthRunning ==
    /\ ctl.pc = "health_running"
    /\ slot' = [slot EXCEPT !.running = FALSE]
    /\ ctl' = [ctl EXCEPT !.pc = "health_rest"]
    /\ UNCHANGED <<cfg, seq_counter, lock, procs, next_pid, gpio, usb, now,
                   serving, hp, bg, rec, budget, hist>>
    /\ UNCHANGED elsewhere

\* _refresh_slot_health, the remaining assignments (no lock)
PollHealthRest ==
    /\ ctl.pc = "health_rest"
    /\ slot' = [slot EXCEPT !.pid = None, !.url = None,
                            !.last_error = Some("Process died"),
                            !.state = IdleOrAbsent(slot)]
    /\ ctl' = [ctl EXCEPT !.pc = "slot_info"]
    /\ UNCHANGED <<cfg, seq_counter, lock, procs, next_pid, gpio, usb, now,
                   serving, hp, bg, rec, budget, hist>>
    /\ UNCHANGED elsewhere

\* _slot_info: stale flapping of a slot that is not recovering is cleared when
\* fewer than FLAP_THRESHOLD events remain in the window
slot_info(s, t0) ==
    IF s.flapping /\ ~s._recovering
    THEN LET s1 == [s EXCEPT !._event_times = Prune(@, t0)]
         IN IF Len(s1._event_times) < FLAP_THRESHOLD THEN FlapCleared(s1) ELSE s1
    ELSE s

\* GET /api/devices, _slot_info and the response
PollInfo ==
    /\ ctl.pc = "slot_info"
    /\ \E t \in ClockReads :
         /\ ClockRead(t)
         /\ slot' = slot_info(slot, t)
    /\ ctl' = IdleCtl
    /\ UNCHANGED <<cfg, seq_counter, lock, procs, next_pid, gpio, usb, serving,
                   hp, bg, rec, hist>>
    /\ UNCHANGED elsewhere

\* ---------------------------------------------------------------------------
\* Specifications
\* ---------------------------------------------------------------------------

BootStep == BootScanNone \/ BootScanFound

HotplugStep ==
    \E h \in Handlers : HRecv(h) \/ HSeq(h) \/ HFlap(h) \/ HDispatch(h) \/ HRespond(h)

SfrStep == \E c \in Callers : SfrCheck(c) \/ SfrSet(c) \/ SfrStop(c) \/ SfrUnbind(c)

BgStep == BgStartBegin \/ BgStartEnd \/ BgStop

RecGpioStep ==
    \E i \in RecIds : \/ RecGpioBoot(i) \/ RecGpioEn(i) \/ RecGpioEnHigh(i)
                       \/ RecGpioRebind(i) \/ RecGpioDone(i)

RecNoGpioStep == \E i \in RecIds : RecNoGpioStart(i) \/ RecNoGpioDone(i)

ProxyCtlStep ==
    \/ ApiStartBegin \/ ApiStartEnd \/ ApiStop
    \/ ResetBegin \/ ResetOpen \/ ResetRestart \/ ResetEnd

MonitorStep == MonitorBegin \/ MonitorEnd

ReleaseStep == ReleaseBegin \/ ReleaseEnd

PollStep == PollCheck \/ PollHealthRunning \/ PollHealthRest \/ PollInfo

\* The whole supervisor: hotplug events arriving one at a time while the
\* control surface is used and proxies die.
Init ==
    \E c \in Configs :
        InitWith(c, [events |-> FewEvents, calls |-> MaxCalls,
                     deaths |-> MaxDeaths, conc |-> 1, ticks |-> 0])

Next ==
    \/ BootStep \/ ProcDies
    \/ HotplugStep \/ SfrStep \/ BgStep \/ RecGpioStep \/ RecNoGpioStep
    \/ ProxyCtlStep \/ MonitorStep \/ RecoverBegin \/ ReleaseStep \/ ApiGpioSet
    \/ PollStep

Spec == Init /\ [][Next]_vars

\* The supervisor when GET /api/devices is not called: boot scan, hotplug
\* events, /api/start, /api/stop, serial reset, flap recovery and the other
\* control-surface calls.
NextProxy ==
    \/ BootStep \/ ProcDies
    \/ HotplugStep \/ SfrStep \/ BgStep \/ RecGpioStep \/ RecNoGpioStep
    \/ ProxyCtlStep \/ MonitorStep \/ RecoverBegin \/ ReleaseStep \/ ApiGpioSet

SpecProxy == Init /\ [][NextProxy]_vars

\* A storm of hotplug events over time, one request at a time, with no
\* control-surface call.
InitFlap ==
    \E c \in Configs :
        InitWith(c, [events |-> MaxEvents, calls |-> 0, deaths |-> 0, conc |-> 1,
                     ticks |-> MaxTicks])

NextFlap ==
    \/ BootStep
    \/ HotplugStep \/ SfrStep \/ BgStep \/ RecGpioStep \/ RecNoGpioStep

SpecFlap == InitFlap /\ [][NextFlap]_vars

\* Hotplug requests handled concurrently.
InitSeq ==
    InitWith(ConfigNoGpio, [events |-> FewEvents + 1, calls |-> 0, deaths |-> 0,
                            conc |-> NumHandlers, ticks |-> 0])

NextSeq == BootStep \/ HotplugStep \/ BgStep

SpecSeq == InitSeq /\ [][NextSeq]_vars

\* Hotplug requests handled one at a time, with every thread that can take a
\* step taking it in the end: a handler that has received its request runs to
\* its response, and a background task gets the lock when it is free.  The
\* arrival of a request is left to the environment.
InitLive ==
    InitWith(ConfigNoGpio, [events |-> FewEvents + 1, calls |-> 0, deaths |-> 0,
                            conc |-> 1, ticks |-> 0])

HandlerProgress ==
    \E h \in Handlers : HSeq(h) \/ HFlap(h) \/ HDispatch(h) \/ HRespond(h)

SpecLive ==
    /\ InitLive /\ [][NextSeq]_vars
    /\ WF_vars(HandlerProgress) /\ WF_vars(BgStep)

\* A slot without GPIO pins through as many flap storms as it takes to use up
\* its recovery retries, with no control-surface call.
InitRetry ==
    InitWith(ConfigNoGpio,
             [events |-> (FLAP_MAX_RETRIES + 1) * FLAP_THRESHOLD, calls |-> 0,
              deaths |-> 0, conc |-> 1, ticks |-> 0])

NextRetry == BootStep \/ HotplugStep \/ SfrStep \/ BgStep \/ RecNoGpioStep

SpecRetry == InitRetry /\ [][NextRetry]_vars

\* The same slot with one more event, which may arrive a clock step after the
\* one before it.
InitParked ==
    InitWith(ConfigNoGpio,
             [events |-> (FLAP_MAX_RETRIES + 1) * FLAP_THRESHOLD + LateEvents,
              calls |-> 0, deaths |-> 0, conc |-> 1, ticks |-> LateTicks])

SpecParked == InitParked /\ [][NextRetry]_vars

\* The same slot with a client that calls POST /api/serial/recover once the
\* retry counter has reached the cap and no recovery is marked outstanding.
Capped ==
    /\ cfg.gpio_boot = None
    /\ slot._recover_retries >= FLAP_MAX_RETRIES
    /\ ~slot._recovering

InitOverride ==
    InitWith(ConfigNoGpio,
             [events |-> (FLAP_MAX_RETRIES + 1) * FLAP_THRESHOLD, calls |-> ManualCalls,
              deaths |-> 0, conc |-> 1, ticks |-> 0])

NextOverride == NextRetry \/ (Capped /\ RecoverBegin)

SpecOverride == InitOverride /\ [][NextOverride]_vars

\* Recoveries started by POST /api/serial/recover while hotplug events
\* arrive, for the three kinds of slot, and the storms that use up the
\* retries of a slot without GPIO pins, with every thread that can take a
\* step taking it in the end: the caller of _start_flap_recovery gets the
\* slot lock when it is free, and a recovery thread's sleeps end.
InitRecover ==
    \/ \E c \in Configs \cup {ConfigBadKey} :
         InitWith(c, [events |-> FewEvents, calls |-> MaxCalls, deaths |-> 0,
                      conc |-> 1, ticks |-> 0])
    \/ InitRetry

NextRecover ==
    \/ BootStep \/ HotplugStep \/ SfrStep \/ BgStep \/ RecGpioStep
    \/ RecNoGpioStep \/ RecoverBegin

SfrOf(c) == SfrCheck(c) \/ SfrSet(c) \/ SfrStop(c) \/ SfrUnbind(c)

RecThread(i) ==
    \/ RecGpioBoot(i) \/ RecGpioEn(i) \/ RecGpioEnHigh(i) \/ RecGpioRebind(i)
    \/ RecGpioDone(i) \/ RecNoGpioStart(i) \/ RecNoGpioDone(i)

SpecRecover ==
    /\ InitRecover /\ [][NextRecover]_vars
    /\ WF_vars(HandlerProgress) /\ WF_vars(BgStep)
    /\ \A c \in Callers : WF_vars(SfrOf(c))
    /\ \A i \in RecIds : WF_vars(RecThread(i))

\* A slot with GPIO pins brought into download mode by a manual recovery and
\* then released, with hotplug events in between.
InitRelease ==
    InitWith(ConfigGpio, [events |-> FewEvents, calls |-> ReleaseCalls,
                          deaths |-> 0, conc |-> 1, ticks |-> 0])

NextRelease ==
    \/ BootStep \/ HotplugStep \/ BgStep \/ SfrStep \/ RecGpioStep
    \/ RecoverBegin \/ ReleaseStep \/ ReleaseReject \/ ReleaseRespond

SpecRelease == InitRelease /\ [][NextRelease]_vars

\* POST /api/stop as the only control-surface call, next to the boot scan,
\* hotplug events without a storm and the death of a child.
InitStop ==
    \E c \in Configs :
        InitWith(c, [events |-> FewEvents, calls |-> MaxCalls,
                     deaths |-> MaxDeaths, conc |-> 1, ticks |-> 0])

NextStop == BootStep \/ ProcDies \/ HotplugStep \/ BgStep \/ ApiStop

SpecStop == InitStop /\ [][NextStop]_vars

\* The locks alone: threads that begin operations and take and release the
\* locks as the operations do.  A thread inside a block leaves it in the end
\* (the sleeps, polls and subprocess calls under the locks all have
\* timeouts), and a thread at a lock that stays free gets it.
InitLocks ==
    InitWith(ConfigNoGpio,
             [events |-> 0, calls |-> 0, deaths |-> 0, conc |-> 0, ticks |-> 0])

LkProgress(t) == LkAcquire(t) \/ LkRelease(t)

SpecLocks ==
    /\ InitLocks /\ [][LkStep]_vars
    /\ \A t \in LkThreads : WF_vars(LkProgress(t))

\* One hotplug storm that reaches the flap threshold and one POST
\* /api/serial/recover at any moment, for a slot with and without GPIO pins;
\* the end of the no-GPIO recovery is taken statement by statement.
InitRace ==
    \E c \in Configs :
        InitWith(c, [events |-> FLAP_THRESHOLD, calls |-> ManualCalls,
                     deaths |-> 0, conc |-> 1, ticks |-> 0])

NextRace ==
    \/ BootStep \/ HotplugStep \/ SfrStep \/ BgStep \/ RecGpioStep
    \/ (\E i \in RecIds : RecNoGpioStart(i) \/ RecNoGpioClear(i) \/ RecNoGpioRebind(i))
    \/ RecoverBegin

SpecRace == InitRace /\ [][NextRace]_vars

\* POST /api/serial/reset with all its ways to end, next to the boot scan,
\* hotplug events without a storm and the death of a child.
InitReset ==
    \E c \in Configs :
        InitWith(c, [events |-> FewEvents, calls |-> MaxCalls,
                     deaths |-> MaxDeaths, conc |-> 1, ticks |-> 0])

NextReset ==
    \/ BootStep \/ ProcDies \/ HotplugStep \/ BgStep
    \/ ResetBegin \/ ResetOpen \/ ResetRestart \/ ResetEnd \/ ResetRaise

SpecReset == InitReset /\ [][NextReset]_vars

\* A dynamic slot: the boot scan, hotplug events without a storm, the death
\* of a child, and the two control calls that look a slot up by its slot_key.
InitDynamic ==
    InitWith(ConfigDynamic, [events |-> FewEvents, calls |-> MaxCalls,
                             deaths |-> MaxDeaths, conc |-> 1, ticks |-> 0])

NextDynamic ==
    BootStep \/ ProcDies \/ HotplugStep \/ ApiStartBegin \/ ApiStartEnd \/ ApiStop

SpecDynamic == InitDynamic /\ [][NextDynamic]_vars

\* ---------------------------------------------------------------------------
\* Activity log: actions
\* ---------------------------------------------------------------------------

\* the wall clock advances
LogTick ==
    /\ activity_log.clock < MaxLogTime
    /\ activity_log' = [activity_log EXCEPT !.clock = @ + 1]
    /\ UNCHANGED <<slotvars, human, radio, lk>>

\* log_activity: an entry stamped with the clock is appended
LogWrite ==
    /\ activity_log.writes > 0
    /\ activity_log' =
         [activity_log EXCEPT
            !.writes = @ - 1,
            !.entries = deque_append(@, [ts |-> isoformat(activity_log.clock),
                                         at |-> activity_log.clock])]
    /\ UNCHANGED <<slotvars, human, radio, lk>>

\* GET /api/log without a since parameter
LogReadAll ==
    /\ activity_log.reads > 0
    /\ activity_log' =
         [activity_log EXCEPT
            !.reads = @ - 1,
            !.last = [done |-> TRUE, cursor |-> FALSE, at |-> 0,
                      entries |-> get_log(activity_log.entries, None),
                      from |-> activity_log.entries]]
    /\ UNCHANGED <<slotvars, human, radio, lk>>

\* GET /api/log?since=<cursor>, the cursor being the isoformat of an instant
\* up to now
LogReadSince ==
    /\ activity_log.reads > 0
    /\ \E k \in 0..activity_log.clock :
         activity_log' =
           [activity_log EXCEPT
              !.reads = @ - 1,
              !.last = [done |-> TRUE, cursor |-> TRUE, at |-> k,
                        entries |-> get_log(activity_log.entries,
                                            Some(isoformat(k))),
                        from |-> activity_log.entries]]
    /\ UNCHANGED <<slotvars, human, radio, lk>>

LogStep == LogTick \/ LogWrite \/ LogReadAll \/ LogReadSince

\* the activity log alone; the slots stay as configured
InitLog ==
    InitWith(ConfigNoGpio,
             [events |-> 0, calls |-> 0, deaths |-> 0, conc |-> 0, ticks |-> 0])

SpecLog == InitLog /\ [][LogStep]_vars

\* ---------------------------------------------------------------------------
\* WiFi controller: actions
\* ---------------------------------------------------------------------------

RadioCall(c) == radio.cl[c].pc = "idle" /\ radio.ops > 0

\* the end of a call of thread c with result res, the radio being r
RadioReturn(r, c, res) ==
    [r EXCEPT !.cl[c] = [IdleClient EXCEPT !.res = res]]

\* ap_start, _check_wifi_testing_mode (read without the lock)
ApStartCall(c) ==
    /\ RadioCall(c)
    /\ \E s \in Ssids, pw \in Passwords, ch \in Channels :
         LET r == [radio EXCEPT !.ops = @ - 1, !.stops = 0]
         IN radio' =
              IF radio.mode # "wifi-testing"
              THEN RadioReturn(r, c, "disabled")
              ELSE [r EXCEPT !.cl[c] = [IdleClient EXCEPT !.pc = "ap_start",
                                                          !.ssid = s,
                                                          !.password = pw,
                                                          !.channel = ch]]
    /\ UNCHANGED <<slotvars, human, activity_log, lk>>

\* ap_start, the block under _lock (pc is "ap_restore" when sta_leave is the
\* caller)
ApStartBody(c) ==
    /\ radio.cl[c].pc \in {"ap_start", "ap_restore"}
    /\ \E out \in ApStartOutcomes, h \in BOOLEAN :
         radio' = RadioReturn(ap_start_locked([radio EXCEPT !.stops = 0],
                                         radio.cl[c].ssid, radio.cl[c].password,
                                         radio.cl[c].channel, out, h),
                         c, out)
    /\ UNCHANGED <<slotvars, human, activity_log, lk>>

\* ap_stop
ApStop(c) ==
    /\ RadioCall(c)
    /\ radio' = RadioReturn(ap_stop_unlocked([radio EXCEPT !.ops = @ - 1,
                                                      !.stops = @ + 1]),
                       c, "ok")
    /\ UNCHANGED <<slotvars, human, activity_log, lk>>

\* sta_join called from outside, _check_wifi_testing_mode
StaJoinCall(c) ==
    /\ RadioCall(c)
    /\ \E s \in Ssids :
         LET r == [radio EXCEPT !.ops = @ - 1, !.stops = 0]
         IN radio' =
              IF radio.mode # "wifi-testing"
              THEN RadioReturn(r, c, "disabled")
              ELSE [r EXCEPT !.cl[c] = [IdleClient EXCEPT !.pc = "sta_join",
                                                          !.ssid = s]]
    /\ UNCHANGED <<slotvars, human, activity_log, lk>>

\* sta_join, the block under _lock; the internal join of set_mode goes on
\* to the revert when it fails
StaJoinBody(c) ==
    /\ radio.cl[c].pc = "sta_join"
    /\ \E out \in StaJoinOutcomes, d \in BOOLEAN :
         LET r == sta_join_locked([radio EXCEPT !.stops = 0,
                                                !.before_join = ApConfig(radio)],
                                  radio.cl[c].ssid, out, d)
         IN radio' =
              IF radio.cl[c].internal /\ out # "ok"
              THEN [r EXCEPT !.cl[c].pc = "set_mode_revert", !.cl[c].res = out]
              ELSE RadioReturn(r, c, out)
    /\ UNCHANGED <<slotvars, human, activity_log, lk>>

\* sta_leave, the block under _lock; a saved AP is restored afterwards
StaLeave(c) ==
    /\ RadioCall(c)
    /\ LET r == [sta_stop_unlocked(radio) EXCEPT !.ops = @ - 1, !.stops = 0,
                                                 !.before_join = None,
                                                 !.saved_ap = None]
       IN radio' =
            IF radio.saved_ap = None
            THEN RadioReturn(r, c, "ok")
            ELSE [r EXCEPT !.cl[c] =
                     [IdleClient EXCEPT !.pc = "restore",
                                        !.ssid = Val(radio.saved_ap).ssid,
                                        !.password = Val(radio.saved_ap).password,
                                        !.channel = Val(radio.saved_ap).channel]]
    /\ UNCHANGED <<slotvars, human, activity_log, lk>>

\* sta_leave calling ap_start with the saved configuration,
\* _check_wifi_testing_mode
StaLeaveRestore(c) ==
    /\ radio.cl[c].pc = "restore"
    /\ radio' =
         IF radio.mode # "wifi-testing"
         THEN RadioReturn(radio, c, "disabled")
         ELSE [radio EXCEPT !.cl[c].pc = "ap_restore"]
    /\ UNCHANGED <<slotvars, human, activity_log, lk>>

\* set_mode, up to the end of the block under _lock: the same mode returns
\* at once, serial-interface needs an ssid, and either switch stops AP and
\* STA; the switch to serial-interface goes on to join the network
SetMode(c) ==
    /\ RadioCall(c)
    /\ \E m \in {"wifi-testing", "serial-interface"}, s \in Ssids \cup {""} :
         LET r == [radio EXCEPT !.ops = @ - 1, !.stops = 0]
         IN radio' =
              IF m = radio.mode THEN RadioReturn(r, c, "ok")
              ELSE IF m = "serial-interface"
              THEN IF s = "" THEN RadioReturn(r, c, "ssid required")
                   ELSE [stop_all_unlocked(r) EXCEPT
                           !.mode = "serial-interface",
                           !.mode_ssid = s,
                           !.cl[c] = [IdleClient EXCEPT !.pc = "sta_join",
                                                        !.ssid = s,
                                                        !.internal = TRUE]]
              ELSE RadioReturn([stop_all_unlocked(r) EXCEPT !.mode = "wifi-testing",
                                                       !.mode_ssid = ""],
                          c, "ok")
    /\ UNCHANGED <<slotvars, human, activity_log, lk>>

\* set_mode, "revert on failure"
SetModeRevert(c) ==
    /\ radio.cl[c].pc = "set_mode_revert"
    /\ radio' = RadioReturn([radio EXCEPT !.mode = "wifi-testing", !.mode_ssid = ""],
                       c, radio.cl[c].res)
    /\ UNCHANGED <<slotvars, human, activity_log, lk>>

\* handle_lease_event "add"/"old" and "del" (no lock)
LeaseEvent ==
    /\ radio.leases > 0
    /\ \E mac \in Macs, add \in BOOLEAN :
         radio' = [radio EXCEPT
                     !.leases = @ - 1,
                     !.stops = 0,
                     !.stations = IF add THEN @ \cup {mac} ELSE @ \ {mac}]
    /\ UNCHANGED <<slotvars, human, activity_log, lk>>

RadioStep ==
    \/ \E c \in Clients :
          \/ ApStartCall(c) \/ ApStartBody(c) \/ ApStop(c)
          \/ StaJoinCall(c) \/ StaJoinBody(c)
          \/ StaLeave(c) \/ StaLeaveRestore(c)
          \/ SetMode(c) \/ SetModeRevert(c)
    \/ LeaseEvent

\* the WiFi controller alone; the slots stay as configured
InitRadio ==
    InitWith(ConfigNoGpio,
             [events |-> 0, calls |-> 0, deaths |-> 0, conc |-> 0, ticks |-> 0])

SpecRadio == InitRadio /\ [][RadioStep]_vars

\* ---------------------------------------------------------------------------
\* Human interaction: actions
\* ---------------------------------------------------------------------------

\* _handle_human_interaction up to the wait: 400 without a message, 409 when
\* a request is registered, otherwise the request is registered
HiPost(r) ==
    /\ human.req[r].pc = "idle"
    /\ human.posts > 0
    /\ \E m \in Bodies :
         IF m = ""
         THEN human' = [human EXCEPT !.posts = @ - 1, !.req[r].out = "400"]
         ELSE IF human_pending(human)
         THEN human' = [human EXCEPT !.posts = @ - 1, !.req[r].out = "409"]
         ELSE human' = [human EXCEPT !.posts = @ - 1,
                                     !.event = "clear",
                                     !.confirmed = FALSE,
                                     !.message = Some(m),
                                     !.click = "none",
                                     !.late = FALSE,
                                     !.req[r] = [pc |-> "wait", msg |-> m,
                                                 responded |-> FALSE,
                                                 out |-> "none"]]
    /\ UNCHANGED <<slotvars, activity_log, radio, lk>>

\* _human_event.wait returns True: the flag was set
HiWake(r) ==
    /\ human.req[r].pc = "wait"
    /\ human.event = "set"
    /\ human' = [human EXCEPT !.req[r].pc = "woke", !.req[r].responded = TRUE]
    /\ UNCHANGED <<slotvars, activity_log, radio, lk>>

\* _human_event.wait returns False: the timeout elapsed with the flag clear
HiTimeout(r) ==
    /\ human.req[r].pc = "wait"
    /\ human.event = "clear"
    /\ human' = [human EXCEPT !.req[r].pc = "woke", !.req[r].responded = FALSE]
    /\ UNCHANGED <<slotvars, activity_log, radio, lk>>

\* the second block under _human_lock and the response
HiReturn(r) ==
    /\ human.req[r].pc = "woke"
    /\ human' = [human EXCEPT
                    !.event = "none",
                    !.message = None,
                    !.req[r].pc = "idle",
                    !.req[r].out = human_outcome(human.req[r].responded,
                                                 human.confirmed)]
    /\ UNCHANGED <<slotvars, activity_log, radio, lk>>

\* the body shared by _handle_human_done (v = TRUE) and _handle_human_cancel
\* (v = FALSE): rejected unless an event is registered and its flag is clear
human_click(h, v) ==
    IF human_no_pending(h)
    THEN [h EXCEPT !.ui = "no pending request"]
    ELSE [h EXCEPT !.ui = "ok",
                   !.confirmed = v,
                   !.event = "set",
                   !.click = IF v THEN "done" ELSE "cancel",
                   !.late = \E r \in Requesters : h.req[r].pc = "woke"]

\* _handle_human_done
HumanDone ==
    /\ human.clicks > 0
    /\ human' = [human_click(human, TRUE) EXCEPT !.clicks = @ - 1]
    /\ UNCHANGED <<slotvars, activity_log, radio, lk>>

\* _handle_human_cancel
HumanCancel ==
    /\ human.clicks > 0
    /\ human' = [human_click(human, FALSE) EXCEPT !.clicks = @ - 1]
    /\ UNCHANGED <<slotvars, activity_log, radio, lk>>

HumanStep ==
    \/ \E r \in Requesters : HiPost(r) \/ HiWake(r) \/ HiTimeout(r) \/ HiReturn(r)
    \/ HumanDone
    \/ HumanCancel

\* the human-interaction endpoints alone; the slots stay as configured
InitHuman ==
    InitWith(ConfigNoGpio,
             [events |-> 0, calls |-> 0, deaths |-> 0, conc |-> 0, ticks |-> 0])

SpecHuman == InitHuman /\ [][HumanStep]_vars

\* ---------------------------------------------------------------------------
\* Claims
\* ---------------------------------------------------------------------------

HotplugHandling ==
    \/ \E h \in Handlers : HSeq(h) \/ HFlap(h) \/ HDispatch(h) \/ HRespond(h)
    \/ BgStep

\* C2: while _recovering is true no handling of a hotplug event changes
\* present, devnode, running or state.
C2_NoChangeWhileRecovering ==
    [][ (slot._recovering /\ HotplugHandling) =>
          /\ slot'.present = slot.present
          /\ slot'.devnode = slot.devnode
          /\ slot'.running = slot.running
          /\ slot'.state = slot.state ]_vars

\* C3: at every quiescent point running implies pid, tcp_port and url are set.
C3_RunningHasPidPortUrl ==
    (Quiescent /\ slot.running) =>
        slot.pid # None /\ cfg.tcp_port # None /\ slot.url # None

\* C4: at every quiescent point download mode implies gpio_boot is configured
\* and the proxy is not running.
C4_DownloadModeNotRunning ==
    (Quiescent /\ slot.state = STATE_DOWNLOAD_MODE) =>
        cfg.gpio_boot # None /\ ~slot.running

\* C5: at every quiescent point flapping implies the state is flapping or
\* recovering.
C5_FlappingState ==
    (Quiescent /\ slot.flapping) => slot.state \in {STATE_FLAPPING, STATE_RECOVERING}

\* C6: at every quiescent point state absent implies not present and not
\* running.
C6_AbsentNotPresentNotRunning ==
    (Quiescent /\ slot.state = STATE_ABSENT) => ~slot.present /\ ~slot.running

\* C7: the seqs assigned to hotplug events are strictly increasing, and no two
\* responses report the same seq.
C7_SeqStrictlyIncreasing ==
    /\ \A i, j \in 1..Len(hist.assigned) :
         i < j => hist.assigned[i] < hist.assigned[j]
    /\ \A i, j \in 1..Len(hist.reported) :
         i # j => hist.reported[i] # hist.reported[j]

\* C8: while the slot is in download mode and release has not been called,
\* the gpio_boot pin is low.
C8_BootHeldLow ==
    (slot.state = STATE_DOWNLOAD_MODE /\ ctl.pc # "release_en") =>
        (cfg.gpio_boot # None /\ gpio[Val(cfg.gpio_boot)] = "low")

\* C9: a slot in download mode stays in download mode until a release call
\* succeeds, which takes it to idle.
C9_DownloadModeUntilRelease ==
    [][ slot.state = STATE_DOWNLOAD_MODE =>
          \/ slot'.state = STATE_DOWNLOAD_MODE
          \/ (ReleaseEnd /\ slot'.state = STATE_IDLE) ]_vars

\* the events within the window once the event handled at instant t is counted
WindowCount(times, t) ==
    Cardinality({i \in 1..Len(times) : t - times[i] < FLAP_WINDOW_S}) + 1

\* C10: for a slot that is neither flapping nor recovering, the event that
\* brings the events within the window to 6 sets flapping and calls the
\* recovery engine, and an event that brings them to 5 or fewer does neither.
C10_FlapThreshold ==
    [][ \A h \in Handlers :
          (HFlap(h) /\ ~slot.flapping /\ ~slot._recovering) =>
             LET n == WindowCount(slot._event_times, now') IN
             /\ n = FLAP_THRESHOLD =>
                  (slot'.flapping /\ slot'.state = STATE_FLAPPING
                   /\ hp'[h].pc = "sfr_check")
             /\ n < FLAP_THRESHOLD =>
                  (~slot'.flapping /\ slot'.state = slot.state
                   /\ hp'[h].pc = "dispatch") ]_vars

\* C10 witness: the handler of the sixth event in the window has set flapping
\* and is entering the recovery engine.
C10_Witness ==
    \E h \in Handlers :
        /\ hp[h].pc = "sfr_check"
        /\ Len(slot._event_times) = FLAP_THRESHOLD
        /\ slot.flapping
        /\ ~slot._recovering

\* C11: on a slot that is flapping and not recovering, the event that arrives
\* exactly one cooldown (10 s) after the previous one clears the flap, provided
\* fewer than 6 events (this one included) are then in the window: flapping is
\* false, last_error is cleared and state is idle if present else absent, and
\* the dispatch that follows keeps state idle if present else absent.
C11_QuietClearBelowThreshold ==
    [][ \A h \in Handlers :
          /\ (HFlap(h) /\ QuietGap(slot, now')
                /\ WindowCount(slot._event_times, now') < FLAP_THRESHOLD) =>
                (/\ ~slot'.flapping
                 /\ slot'.last_error = None
                 /\ slot'.state = IdleOrAbsent(slot)
                 /\ hp'[h].pc = "dispatch")
          /\ (HDispatch(h) /\ hist.quiet /\ ~slot.flapping) =>
                (~slot'.flapping /\ slot'.state = IdleOrAbsent(slot')) ]_vars

\* C11 as stated: the event that arrives exactly one cooldown after the
\* previous one leaves the slot with flapping false, last_error cleared and
\* state idle if present else absent, whatever the window holds.
C11_QuietClear ==
    [][ \A h \in Handlers :
          (HFlap(h) /\ QuietGap(slot, now')) =>
             (/\ ~slot'.flapping
              /\ slot'.last_error = None
              /\ slot'.state = IdleOrAbsent(slot)) ]_vars

\* C11 witness: the handler of an event that came exactly one cooldown after
\* the previous one has cleared the flap and goes on to dispatch.
C11_Witness ==
    \E h \in Handlers :
        /\ hp[h].pc = "dispatch"
        /\ hist.quiet
        /\ ~slot.flapping
        /\ slot.last_error = None

\* C12: on GET /api/devices a slot that is flapping and not recovering has its
\* flapping cleared exactly when fewer than 2 events remain in the 30 s
\* window, the aging test of the hotplug path.
C12_PollSameAgingTest ==
    [][ (PollInfo /\ slot.flapping /\ ~slot._recovering) =>
          (~slot'.flapping <=> Len(Prune(slot._event_times, now')) < 2) ]_vars

\* the recovery engine is not at work: no caller is inside
\* _start_flap_recovery and no recovery thread is outstanding
RecoveryIdle ==
    /\ \A c \in Callers : PcOf(c) \notin {"sfr_check", "sfr_set", "sfr_lock", "sfr_unbind"}
    /\ \A i \in RecIds : rec[i].pc = "none"

\* the slot is parked after its retries ran out
Parked ==
    /\ slot.state = STATE_FLAPPING
    /\ ~slot._recovering
    /\ slot.last_error = Some("Recovery failed - needs manual intervention")

\* C13: in the first two flap cycles of a slot without gpio_boot the recovery
\* thread makes an attempt (cooldown, then idle with one more retry used) and
\* does not park the slot; the recovery thread of the third flap cycle parks it
\* (state flapping, not recovering, last_error asking for manual
\* intervention), and with that cycle over the slot is in state flapping and
\* not recovering.
C13_ParkedAfterThirdCycle ==
    /\ []((RecoveryIdle /\ hist.cycles = FLAP_MAX_RETRIES + 1) =>
            (slot.state = STATE_FLAPPING /\ ~slot._recovering
             /\ slot._recover_retries = FLAP_MAX_RETRIES))
    /\ [][ \A i \in RecIds :
             /\ RecNoGpioStart(i) =>
                   IF hist.cycles <= FLAP_MAX_RETRIES
                   THEN rec'[i].pc = "n_cooldown" /\ slot' = slot /\ ~Parked
                   ELSE Parked'
             /\ RecNoGpioDone(i) =>
                   (/\ slot'._recover_retries = hist.cycles
                    /\ slot'.state = STATE_IDLE
                    /\ ~slot'.flapping) ]_vars

\* C13 as stated: after two flap cycles a slot without gpio_boot is parked.
C13_ParkedAfterTwoCycles ==
    (cfg.gpio_boot = None /\ RecoveryIdle /\ hist.cycles = 2) => Parked

\* C13 witness: the third flap cycle of a slot without gpio_boot is over and
\* the slot is parked.
C13_Witness ==
    /\ cfg.gpio_boot = None
    /\ RecoveryIdle
    /\ hist.cycles = FLAP_MAX_RETRIES + 1
    /\ Parked
    /\ \A h \in Handlers : hp[h].pc = "idle"


\* The no-GPIO retries are exhausted: the counter is at the cap, the slot shows
\* FLAPPING, and no recovery is running or being started.
Exhausted ==
    /\ Capped
    /\ slot.state = STATE_FLAPPING
    /\ RecoveryIdle

\* C14: once the no-GPIO retries are exhausted, the slot stays FLAPPING and no
\* recovery sequence or USB unbind is started until a manual recover is
\* called: no hotplug event and no poll takes the slot out of that state.
C14_ExhaustedUntilManualRecover ==
    [][ (Exhausted /\ ~RecoverBegin)
            => /\ slot'.state = STATE_FLAPPING
               /\ ~slot'._recovering
               /\ RecoveryIdle'
               /\ usb' = usb ]_vars


\* C15: POST /api/serial/recover on a no-GPIO slot whose retry counter is at
\* the cap and that is not recovering resets _recover_retries to 0 and enters
\* _start_flap_recovery; the call then sets state RECOVERING and starts a
\* recovery thread behind the USB unbind; a thread started by the call reads a
\* counter below the cap and sleeps the cooldown instead of giving up with the
\* permanent-failure error, and it ends with state IDLE and _recovering
\* false.
C15_ManualRecoverRealAttempt ==
    [][ /\ (Capped /\ RecoverBegin)
            => (slot'._recover_retries = 0 /\ ctl'.pc = "sfr_check")
        /\ SfrSet(0)
            => (slot'._recovering /\ slot'.state = STATE_RECOVERING)
        /\ SfrUnbind(0)
            => \E i \in RecIds :
                   rec[i].pc = "none" /\ rec'[i].pc = "n_start" /\ rec'[i].by = 0
        /\ \A i \in RecIds :
            /\ (RecNoGpioStart(i) /\ rec[i].by = 0)
                => /\ rec'[i].pc = "n_cooldown"
                   /\ rec'[i].retry < FLAP_MAX_RETRIES
                   /\ slot' = slot
            /\ (RecNoGpioDone(i) /\ rec[i].by = 0)
                => /\ slot'._recover_retries <= FLAP_MAX_RETRIES
                   /\ slot'.state = STATE_IDLE
                   /\ ~slot'._recovering ]_vars

\* the slot had given up (its last_error still says so) and the thread started
\* by the manual recover is in its cooldown, behind the unbind
C15_Witness ==
    /\ cfg.gpio_boot = None
    /\ hist.cycles = FLAP_MAX_RETRIES + 1
    /\ slot.last_error = Some("Recovery failed - needs manual intervention")
    /\ slot.state = STATE_RECOVERING
    /\ slot._recover_retries = 0
    /\ ~usb.bound
    /\ \E i \in RecIds : rec[i].pc = "n_cooldown" /\ rec[i].by = 0


\* C16: if the write to the USB unbind file fails during recovery (the device
\* is still bound after _start_flap_recovery's unbind step), the recovery is
\* aborted: _recovering becomes false, state becomes FLAPPING, and no recovery
\* thread (GPIO or cooldown steps, rebind) is started.
C16_UnbindFailureAborts ==
    [][ \A c \in Callers :
          (SfrUnbind(c) /\ cfg.key_ok /\ usb.bound /\ usb'.bound)
              => /\ ~slot'._recovering
                 /\ slot'.state = STATE_FLAPPING
                 /\ rec' = rec ]_vars


\* a with-GPIO recovery thread is at one of these positions
GpioRecAt(pcs) == \E i \in RecIds : rec[i].pc \in pcs

\* C17: in a with-GPIO recovery the steps occur in this order: USB unbind,
\* cooldown, gpio_boot driven LOW, gpio_en pulsed LOW then HIGH (when
\* configured), USB rebind, and only after the rebind does the slot become
\* DOWNLOAD_MODE with flapping = false, _recover_retries = 0 and
\* _recovering = false.  Step by step: a recovery thread starts in the step
\* that writes the unbind, in its cooldown; BOOT is driven by the thread
\* that leaves the cooldown; EN goes low only once BOOT is low, and high only
\* from low; the bind is written only by the thread that is past the EN
\* pulse; and the slot enters DOWNLOAD_MODE only in the last step of a thread
\* that has written the bind, with the three fields as stated.
C17_GpioRecoveryOrder ==
    [][ cfg.gpio_boot # None =>
        /\ \A i \in RecIds :
            /\ (rec[i].pc = "none" /\ rec'[i].pc # "none")
                => (rec'[i].pc = "g_cooldown" /\ \E c \in Callers : SfrUnbind(c))
            /\ rec'[i].pc = "g_en" => rec[i].pc \in {"g_cooldown", "g_en"}
            /\ rec'[i].pc = "g_en_high" => rec[i].pc \in {"g_en", "g_en_high"}
            /\ rec'[i].pc = "g_rebind"
                => rec[i].pc \in {"g_en", "g_en_high", "g_rebind"}
            /\ rec'[i].pc = "g_settle" => rec[i].pc \in {"g_rebind", "g_settle"}
        /\ gpio'[PIN_BOOT] # gpio[PIN_BOOT]
            => (gpio'[PIN_BOOT] = "low" /\ GpioRecAt({"g_cooldown"}))
        /\ (gpio'[PIN_EN] # gpio[PIN_EN] /\ gpio'[PIN_EN] = "low")
            => (gpio[PIN_BOOT] = "low" /\ GpioRecAt({"g_en"}))
        /\ (gpio'[PIN_EN] # gpio[PIN_EN] /\ gpio'[PIN_EN] = "high")
            => (gpio[PIN_EN] = "low" /\ GpioRecAt({"g_en_high"}))
        /\ (~usb.bound /\ usb'.bound) => GpioRecAt({"g_rebind"})
        /\ (slot.state # STATE_DOWNLOAD_MODE /\ slot'.state = STATE_DOWNLOAD_MODE)
            => /\ GpioRecAt({"g_settle"})
               /\ ~slot'.flapping
               /\ slot'._recover_retries = 0
               /\ ~slot'._recovering ]_vars

\* the recovery has run through: BOOT low, EN pulsed to high, the device bound
\* again, and the slot in download mode
C17_Witness ==
    /\ cfg.gpio_boot # None
    /\ slot.state = STATE_DOWNLOAD_MODE
    /\ gpio[PIN_BOOT] = "low"
    /\ gpio[PIN_EN] = "high"
    /\ usb.bound
    /\ hist.cycles >= 1


\* the handler has dispatched the last event of the run, which was action a,
\* on a slot that is not flapping
LastEventHandled(a) ==
    /\ budget.events = 0
    /\ ~slot.flapping
    /\ \E h \in Handlers : hp[h].pc = "respond" /\ hp[h].action = a

\* C18: after a remove event for a configured, non-flapping slot that is not
\* followed by any add or /api/start, the slot eventually reaches
\* present = false, running = false, state = ABSENT with no proxy child
\* alive, whatever background tasks were pending or in progress.
C18_RemoveSettlesAbsent ==
    LastEventHandled("remove")
        ~> (/\ ~slot.present
            /\ ~slot.running
            /\ slot.state = STATE_ABSENT
            /\ procs = {})


\* the slot serves its device: present, proxy running, idle, pid and url set
ServingDevice ==
    /\ slot.present
    /\ slot.running
    /\ slot.state = STATE_IDLE
    /\ slot.pid # None
    /\ slot.url # None

C20_ProxyWorkOffIngestPath ==
    /\ [](\A h \in Handlers : hp[h].pc = "sfr_lock" => lock = "free")
    /\ [][ \A h \in Handlers :
             SfrStop(h) => (slot'.running = slot.running /\ procs' = procs) ]_vars


\* the mutable fields of the slot that the slot mutex is said to guard
GuardedFields(s) ==
    <<s.present, s.devnode, s.running, s.pid, s.url, s.state, s.flapping,
      s._recovering, s._recover_retries, s._event_times, s.last_error>>

\* C21: every write to a slot's mutable fields is made while the writer holds
\* that slot's mutex.  The flap-detection and dispatch blocks of the hotplug
\* handler and the steps of _recover_without_gpio run without the mutex, so
\* they would have to leave every guarded field as it is.
C21_WritesUnderMutex ==
    [][ ( \/ \E h \in Handlers : HFlap(h) \/ HDispatch(h)
          \/ \E i \in RecIds : RecNoGpioStart(i) \/ RecNoGpioDone(i) )
            => GuardedFields(slot') = GuardedFields(slot) ]_vars

\* the requests that are registered and have not cleared the rendezvous yet
Outstanding == {r \in Requesters : human.req[r].pc \in {"wait", "woke"}}

C23_ThreeOutcomes ==
    /\ [](Outstanding = {} => human.event = "none" /\ human.message = None)
    /\ [][ \A r \in Requesters :
             /\ ( human.req[r].pc = "woke" /\ human'.req[r].pc = "idle" )
                => /\ human'.req[r].out \in {"confirmed", "cancelled", "timeout"}
                   /\ human'.req[r].out = "confirmed"
                        <=> (human.click = "done" /\ ~human.late)
                   /\ human'.req[r].out = "cancelled"
                        <=> (human.click = "cancel" /\ ~human.late)
                   /\ human'.req[r].out = "timeout"
                        <=> (human.click = "none" \/ human.late)
                   /\ human'.event = "none"
                   /\ human'.message = None
             /\ ( /\ human.req[r].pc = "idle"
                  /\ human'.req[r] # human.req[r]
                  /\ Outstanding = {} )
                => \/ human'.req[r].pc = "wait" /\ human'.event = "clear"
                   \/ human'.req[r].out = "400" ]_vars

\* one request has returned confirmed, a later one has timed out, and
\* nothing is pending
C23_Witness ==
    \E r, q \in Requesters :
        /\ r # q
        /\ human.req[r].out = "confirmed"
        /\ human.req[q].out = "timeout"
        /\ Outstanding = {}
        /\ human.event = "none"

\* what stop_proxy leaves of the proxy in the slot
Stopped(s) == ~s.running /\ s.pid = None /\ s.url = None

\* C24: stopping a slot's proxy is idempotent: every POST /api/stop leaves
\* running = false, pid = null and url = null, and a stop on a slot that is
\* already stopped signals no process and leaves those three fields as they
\* were.
C24_StopIdempotent ==
    [][ ApiStop =>
          /\ Stopped(slot')
          /\ Stopped(slot) =>
               /\ procs' = procs
               /\ slot'.running = slot.running
               /\ slot'.pid = slot.pid
               /\ slot'.url = slot.url ]_vars

\* two stops and nothing else have been called, the first of them stopped
\* the proxy that the boot scan had started, and no other child was spawned
C24_Witness ==
    /\ budget.calls = MaxCalls - 2
    /\ next_pid = 2
    /\ procs = {}
    /\ budget.deaths = MaxDeaths
    /\ Stopped(slot)
    /\ slot.present
    /\ slot.state = STATE_IDLE

\* C25: a release call on a slot that is not in DOWNLOAD_MODE returns
\* ok = false with an error and changes neither the slot nor any GPIO pin.
C25_ReleaseRejectedOutsideDownloadMode ==
    [][ ( (ReleaseBegin \/ ReleaseReject) /\ slot.state # STATE_DOWNLOAD_MODE )
          => /\ ctl'.pc = "release_rejected"
             /\ release_check(cfg, slot) = "not in download_mode"
             /\ slot' = slot
             /\ gpio' = gpio ]_vars

\* a release is being rejected on an idle slot whose BOOT pin an earlier
\* release had handed back
C25_Witness ==
    /\ ctl.pc = "release_rejected"
    /\ slot.state = STATE_IDLE
    /\ gpio[Val(cfg.gpio_boot)] = "z"
    /\ budget.calls = ReleaseCalls - 3

\* the newest entry of a deque
Newest(q) == q[Len(q)]

\* the entries of a response
Returned(r) == {r.entries[i] : i \in 1..Len(r.entries)}

\* C26 as stated: a GET /api/log whose since cursor is the current time,
\* taken at or after the instant of the newest log write, returns that write.
C26_SinceNowReturnsWrite ==
    LET r == activity_log.last
    IN ( /\ r.done /\ r.cursor
         /\ r.from # <<>>
         /\ r.at >= Newest(r.from).at )
       => Newest(r.from) \in Returned(r)

\* C26: GET /api/log with a since cursor returns exactly
\* the entries written strictly after the instant of the cursor, in order
\* (the isoformat strings compare as the instants do), and without a cursor
\* it returns the whole deque; so a cursor taken at or after the instant of a
\* write, the entry's own timestamp included, does not return that write.
C26_ReadReturnsStrictlyNewer ==
    LET r == activity_log.last
    IN r.done =>
         /\ r.cursor => r.entries = SelectSeq(r.from, LAMBDA e : e.at > r.at)
         /\ ~r.cursor => r.entries = r.from
         /\ ( r.cursor /\ r.from # <<>> /\ r.at >= Newest(r.from).at )
              => Newest(r.from) \notin Returned(r)

\* a read whose cursor is the timestamp of the write just made, answered
\* without that write
C26_Witness ==
    LET r == activity_log.last
    IN /\ r.done /\ r.cursor
       /\ r.from # <<>>
       /\ r.from = activity_log.entries
       /\ r.at = Newest(r.from).at
       /\ r.at = activity_log.clock
       /\ Newest(r.from) \notin Returned(r)

\* the radio state that ap_stop leaves: AP inactive, ssid empty, channel 0,
\* no stations
ApStopped(r) ==
    ~r.ap_active /\ r.ap_ssid = "" /\ r.ap_channel = 0 /\ r.stations = {}

\* C27: ap_stop is idempotent: every call ends without error and leaves the
\* AP inactive with ssid empty, channel 0 and no stations, and a call made
\* when that is already so (no AP active, in particular right after another
\* ap_stop) changes nothing of the radio.
C27_ApStopIdempotent ==
    [][ \A c \in Clients :
          ApStop(c) =>
            /\ radio'.cl[c].res = "ok"
            /\ ApStopped(radio')
            /\ (ApStopped(radio) /\ ~radio.hostapd /\ ~radio.dnsmasq) =>
                 /\ radio'.ap_active = radio.ap_active
                 /\ radio'.ap_ssid = radio.ap_ssid
                 /\ radio'.ap_channel = radio.ap_channel
                 /\ radio'.stations = radio.stations
                 /\ radio'.hostapd = radio.hostapd
                 /\ radio'.dnsmasq = radio.dnsmasq
                 /\ radio'.sta_active = radio.sta_active
                 /\ radio'.sta_ssid = radio.sta_ssid
                 /\ radio'.wpa = radio.wpa
                 /\ radio'.saved_ap = radio.saved_ap
                 /\ radio'.mode = radio.mode ]_vars

\* after an earlier call and a lease event, two ap_stop calls have been made
\* in a row, the second of them with no AP active
C27_Witness ==
    /\ radio.stops = 2
    /\ radio.ops = MaxRadioOps - 3
    /\ radio.leases = MaxLeases - 1
    /\ ApStopped(radio)
    /\ \A c \in Clients : radio.cl[c].pc = "idle"

\* C28: the AP role and the STA role are mutually exclusive: in every state
\* reached by ap_start, ap_stop, sta_join, sta_leave and set_mode calls, the
\* failing ones included, _ap_active and _sta_active are not both true and
\* hostapd and the wpa_supplicant daemon do not both run; and a sta_join
\* that succeeds leaves the AP inactive.
C28_ApStaExclusive ==
    /\ [](/\ ~(radio.ap_active /\ radio.sta_active)
          /\ ~(radio.hostapd /\ radio.wpa))
    /\ [][ \A c \in Clients :
             ( StaJoinBody(c) /\ radio'.cl[c].res = "ok" )
             => /\ radio'.sta_active
                /\ ~radio'.ap_active
                /\ ~radio'.hostapd ]_vars

\* a station join has succeeded on a radio whose AP was active: the AP's
\* configuration is saved and the AP is off
C28_Witness ==
    /\ radio.sta_active
    /\ radio.wpa
    /\ radio.saved_ap # None
    /\ ~radio.ap_active
    /\ \E c \in Clients : radio.cl[c].res = "ok" /\ radio.cl[c].pc = "idle"

\* C29: a hotplug event whose handler finds _recovering true is dropped: the
\* handler writes seq and last_action (and last_event_ts, which the slot of
\* the model does not carry) and nothing else of the slot, creates no
\* background task and no recovery thread, and answers accepted = false,
\* flapping = true, recovering = true.
C29_DroppedWhileRecovering ==
    [][ \A h \in Handlers :
          /\ ( HSeq(h) /\ slot._recovering )
             => /\ hp'[h].pc = "dropped"
                /\ slot' = [slot EXCEPT !.seq = seq_counter',
                                        !.last_action = Some(hp[h].action)]
                /\ bg' = bg /\ rec' = rec /\ procs' = procs
          /\ ( hp[h].pc = "dropped" /\ hp'[h] # hp[h] )
             => /\ HRespond(h)
                /\ hotplug_response(hp[h].pc, cfg, slot)
                     = [accepted |-> FALSE, flapping |-> TRUE,
                        recovering |-> TRUE]
                /\ slot' = slot
                /\ bg' = bg /\ rec' = rec /\ procs' = procs ]_vars

\* an event has been dropped while the recovery is still going on
C29_Witness ==
    /\ slot._recovering
    /\ \E h \in Handlers : hp[h].pc = "dropped"
    /\ \E i \in RecIds : rec[i].pc # "none"

\* a step in which some caller enters start_proxy: POST /api/start, the
\* background task of an add event past its flapping test, serial_reset
\* finding the proxy not running, the boot scan of a configured slot
StartProxyCalled ==
    \/ ApiStartBegin
    \/ BgStartBegin /\ ~(slot.flapping \/ slot._recovering)
    \/ ResetRestart /\ ~slot.running
    \/ BootScanFound /\ cfg.tcp_port # None /\ ~slot.running

\* C30: every invocation of start_proxy, from any caller, happens with the
\* slot mutex taken by that caller, tcp_port set, devnode set and the slot
\* not flapping.
C30_StartProxyPreconditions ==
    [][ StartProxyCalled =>
          /\ lock = "free"
          /\ cfg.tcp_port # None
          /\ slot'.devnode # None
          /\ ~slot.flapping ]_vars

\* C31: every recovery that starts runs to completion: whenever _recovering
\* is true it is false again later, on every path (slot_key naming no USB
\* device, GPIO failure, retries exhausted) and whatever hotplug events
\* arrive meanwhile; the step that clears it leaves the slot in
\* DOWNLOAD_MODE, IDLE or FLAPPING.
C31_RecoveryCompletes ==
    /\ slot._recovering ~> ~slot._recovering
    /\ [][ (slot._recovering /\ ~slot'._recovering)
             => slot'.state \in {STATE_DOWNLOAD_MODE, STATE_IDLE,
                                 STATE_FLAPPING} ]_vars

\* a recovery of a slot with GPIO pins has ended on the GPIO failure path:
\* the USB device was unbound, BOOT could not be driven, and the slot is
\* FLAPPING with no recovery running
C31_Witness ==
    /\ cfg.gpio_boot # None
    /\ ~slot._recovering
    /\ slot.flapping
    /\ slot.state = STATE_FLAPPING
    /\ ~usb.bound
    /\ RecoveryIdle

\* C32 as stated: a dynamic slot (tcp_port null) is never serviced by a proxy:
\* whatever hotplug events and control calls arrive, /api/start naming it
\* included, no proxy child is ever spawned for it and running stays false.
C32_DynamicSlotNeverSpawns ==
    cfg.tcp_port = None => (next_pid = 1 /\ procs = {} /\ ~slot.running)

\* serial_reset returns a result: from the failed open, from the restart that
\* had nothing to start or failed before the spawn, or behind start_proxy
ResetReturns == (ResetOpen \/ ResetRestart \/ ResetEnd) /\ ctl'.pc = "idle"

Carried(k) == [ssid |-> k.ssid, password |-> k.password, channel |-> k.channel]

RecoveryThreads == {i \in RecIds : rec[i].pc # "none"}

\* C35 as stated: at most one recovery sequence is in progress per slot at any
\* time: when the flap-threshold trigger of a hotplug event and POST
\* /api/serial/recover run concurrently, only one of them unbinds the USB
\* device and spawns a recovery thread.
C35_SingleRecovery == Cardinality(RecoveryThreads) <= 1

\* C36 as stated: in every reachable state _recovering = true implies
\* flapping = true: no path that clears flapping (the quiet-period check of
\* the hotplug handler, the stale clearance of GET /api/devices) clears it
\* while a recovery is in progress or being started.
C36_RecoveringImpliesFlapping == slot._recovering => slot.flapping

\* C37 as stated: whenever POST /api/human/done returns ok = true, the blocked
\* request it answered (the one whose event it set) returns confirmed = true,
\* never the timeout outcome, also when the done call races with the expiry
\* of the request's timeout.
C37_DoneMeansConfirmed ==
    [][ \A r \in Requesters :
          (human.req[r].pc = "woke" /\ human'.req[r].pc = "idle"
             /\ human.event = "set" /\ human.click = "done")
          => human'.req[r].out = "confirmed" ]_vars

\* C38 as stated: while the radio is in serial-interface mode no AP is active,
\* and an ap_start or a sta_join from the control surface that is issued in
\* that mode is rejected with the mode-disabled error and changes nothing,
\* even when it runs concurrently with the set_mode call that switches.
C38_SerialInterfaceDisablesWifi ==
    /\ [](radio.mode = "serial-interface" => ~radio.ap_active)
    /\ [][ \A c \in Clients :
             ((ApStartCall(c) \/ StaJoinCall(c)) /\ radio.mode = "serial-interface")
             => /\ radio'.cl[c].pc = "idle" /\ radio'.cl[c].res = "disabled"
                /\ ApConfig(radio') = ApConfig(radio)
                /\ radio'.sta_active = radio.sta_active ]_vars

\* C39 as stated: every recovery that unbound the USB device rebinds it before
\* the recovery ends: when a recovery thread (started behind _usb_unbind)
\* makes the step that returns _recovering to false while the device is
\* unbound, its call of _usb_rebind lies behind it, on every exit path (download mode reached, no-GPIO retry,
\* retries exhausted, GPIO failure).
C39_RebindBeforeRecoveryEnds ==
    [][ \A i \in RecIds :
          (rec[i].pc # "none" /\ rec'[i] # rec[i] /\ ~usb.bound
             /\ slot._recovering /\ ~slot'._recovering)
          => rec[i].pc = "g_settle" ]_vars

\* C40: the system never deadlocks on its locks: no thread waits for a slot
\* mutex, the GPIO lock, the human-rendezvous lock or the radio lock while
\* it holds that lock or any other, so no thread waits for itself or in a
\* circle, and every thread that waits for a lock gets it in the end.
C40_NoDeadlock ==
    /\ [](\A t \in LkThreads : WaitingFor(t) # {} => HeldBy(t) = {})
    /\ \A t \in LkThreads : \A l \in LockNames :
          (l \in WaitingFor(t)) ~> (lk.owner[l] = t)

\* a thread is inside the first block of a set_mode to serial-interface (two
\* more blocks to come) and another thread is waiting for the radio lock
C40_Witness ==
    \E t \in LkThreads, u \in LkThreads :
        /\ t # u
        /\ lk.owner["radio"] = u /\ Len(lk.th[u]) = 5
        /\ "radio" \in WaitingFor(t)

====
